---- MODULE Spec2Model ----
(***************************************************************************)
(* Model of the Finnhub MCP server: the call-tool handler of index.ts,     *)
(* the zod argument schemas of types.ts and the FinnhubClient of           *)
(* finnhub-client.ts (request, the five orchestrators, the normalizers,    *)
(* formatDate / addDays).                                                  *)
(*                                                                         *)
(* JavaScript values are tagged records: [t |-> "undefined"],              *)
(* [t |-> "null"], [t |-> "num", v |-> n], [t |-> "str", v |-> chars],     *)
(* [t |-> "arr", v |-> seq], [t |-> "obj", v |-> fields].  A JavaScript    *)
(* string is the sequence of its characters, so that length, the date      *)
(* pattern, toUpperCase, Date parsing and toISOString are computed.        *)
(***************************************************************************)
EXTENDS Integers, Sequences, FiniteSets, TLC

(***************************************************************************)
(* Bounds of the model                                                     *)
(***************************************************************************)
\* longest list of quote symbols that is fetched symbol by symbol
MaxSymbols == 2
\* number of tool calls that can be in flight at the same time
MaxCalls == 2

(***************************************************************************)
(* JavaScript values                                                       *)
(***************************************************************************)
Undefined == [t |-> "undefined"]
Null == [t |-> "null"]
Num(n) == [t |-> "num", v |-> n]
Str(s) == [t |-> "str", v |-> s]
Arr(a) == [t |-> "arr", v |-> a]
Obj(o) == [t |-> "obj", v |-> o]
EmptyObj == [t |-> "obj", v |-> <<>>]
\* a string whose characters are never looked at (a literal of the program
\* text, an opaque string of the provider), and a template literal's parts
Lit(s) == [t |-> "lit", v |-> s]
Text(parts) == [t |-> "text", v |-> parts]
NaN == [t |-> "nan"]

\* ToBoolean: what `!x`, `x || y` and `x ? a : b` look at
Truthy(x) ==
  CASE x.t = "undefined" -> FALSE
    [] x.t = "null" -> FALSE
    [] x.t = "num" -> x.v # 0
    [] x.t = "nan" -> FALSE
    [] x.t = "str" -> Len(x.v) # 0
    [] OTHER -> TRUE

\* x || y
OrElse(x, y) == IF Truthy(x) THEN x ELSE y

\* x ?? y
Coalesce(x, y) == IF x.t \in {"undefined", "null"} THEN y ELSE x

\* reading o.f throws a TypeError when o is undefined or null
CanRead(o) == o.t \notin {"undefined", "null"}

\* o.f for a readable o: undefined unless o is an object that has the field
Get(o, f) == IF o.t = "obj" /\ f \in DOMAIN o.v THEN o.v[f] ELSE Undefined

\* x?.length: the length of an array or a string, undefined for undefined,
\* null and for a value without a length
LengthOf(x) == IF x.t \in {"arr", "str"} THEN Num(Len(x.v)) ELSE Undefined

\* for (const e of x) accepts an array or a string (its characters) and
\* throws a TypeError on anything else
CanIterate(x) == x.t \in {"arr", "str"}
ElementsOf(x) == IF x.t = "arr" THEN x.v ELSE [i \in 1..Len(x.v) |-> Str(<< x.v[i] >>)]

\* x !== 0
NotZero(x) == x.t # "num" \/ x.v # 0

\* a - b and a + b on numbers; NaN when an operand is undefined or NaN
Minus(a, b) == IF a.t = "num" /\ b.t = "num" THEN Num(a.v - b.v) ELSE NaN
Plus(a, b) == IF a.t = "num" /\ b.t = "num" THEN Num(a.v + b.v) ELSE NaN

\* JSON.stringify: a field whose value is undefined is left out, undefined in
\* an array and NaN become null
RECURSIVE JSONstringify(_)
JSONstringify(x) ==
  CASE x.t = "obj" ->
         Obj([k \in {f \in DOMAIN x.v : x.v[f].t # "undefined"} |-> JSONstringify(x.v[k])])
    [] x.t = "arr" ->
         Arr([i \in 1..Len(x.v) |->
                IF x.v[i].t = "undefined" THEN Null ELSE JSONstringify(x.v[i])])
    [] x.t = "nan" -> Null
    [] OTHER -> x

(***************************************************************************)
(* Strings                                                                 *)
(***************************************************************************)
LowerChars == <<"a","b","c","d","e","f","g","h","i","j","k","l","m",
                "n","o","p","q","r","s","t","u","v","w","x","y","z">>
UpperChars == <<"A","B","C","D","E","F","G","H","I","J","K","L","M",
                "N","O","P","Q","R","S","T","U","V","W","X","Y","Z">>
Digits == <<"0","1","2","3","4","5","6","7","8","9">>

IsDigit(c) == \E i \in 1..10 : Digits[i] = c
DigitVal(c) == (CHOOSE i \in 1..10 : Digits[i] = c) - 1

ToUpperChar(c) ==
  IF \E i \in 1..26 : LowerChars[i] = c
  THEN UpperChars[CHOOSE i \in 1..26 : LowerChars[i] = c]
  ELSE c

ToUpperCaseOmitted(s) == s

\* String.prototype.toUpperCase on a sequence of characters
ToUpperCase(s) == [i \in 1..Len(s) |-> ToUpperChar(s[i])]

(***************************************************************************)
(* types.ts: the zod schemas                                               *)
(***************************************************************************)
SymbolMin == 1
SymbolMax == 10
SymbolsMin == 1
SymbolsMax == 50

\* /^\d{4}-\d{2}-\d{2}$/
DateRegex(s) ==
  /\ Len(s) = 10
  /\ \A i \in {1, 2, 3, 4, 6, 7, 9, 10} : IsDigit(s[i])
  /\ s[5] = "-"
  /\ s[8] = "-"

Issue(code, field, index) == [code |-> code, field |-> field, index |-> index]

\* z.string().min(1).max(10): every failed check adds its own issue
SymbolIssues(x, field, index) ==
  IF x.t # "str" THEN << Issue("invalid_type", field, index) >>
  ELSE (IF Len(x.v) < SymbolMin THEN << Issue("too_small", field, index) >> ELSE << >>)
       \o (IF Len(x.v) > SymbolMax THEN << Issue("too_big", field, index) >> ELSE << >>)

\* z.string().regex(/^\d{4}-\d{2}-\d{2}$/)
DateIssues(x, field) ==
  IF x.t # "str" THEN << Issue("invalid_type", field, 0) >>
  ELSE IF DateRegex(x.v) THEN << >> ELSE << Issue("invalid_string", field, 0) >>

RECURSIVE ElementIssues(_, _, _)
ElementIssues(a, field, i) ==
  IF i > Len(a) THEN << >>
  ELSE SymbolIssues(a[i], field, i) \o ElementIssues(a, field, i + 1)

SymbolsIssuesOffByOne(x, field) ==
  IF x.t # "arr" THEN << Issue("invalid_type", field, 0) >>
  ELSE (IF Len(x.v) < SymbolsMin THEN << Issue("too_small", field, 0) >> ELSE << >>)
       \o (IF Len(x.v) >= SymbolsMax THEN << Issue("too_big", field, 0) >> ELSE << >>)
       \o ElementIssues(x.v, field, 1)

\* z.array(z.string().min(1).max(10)).min(1).max(50)
SymbolsIssues(x, field) ==
  IF x.t # "arr" THEN << Issue("invalid_type", field, 0) >>
  ELSE (IF Len(x.v) < SymbolsMin THEN << Issue("too_small", field, 0) >> ELSE << >>)
       \o (IF Len(x.v) > SymbolsMax THEN << Issue("too_big", field, 0) >> ELSE << >>)
       \o ElementIssues(x.v, field, 1)

\* a schema is the list of its fields: name, kind of value, .optional()
Field(name, kind, optional) == [name |-> name, kind |-> kind, optional |-> optional]

EarningsCalendarArgsSchema ==
  << Field("from", "date", TRUE), Field("to", "date", TRUE), Field("symbol", "symbol", TRUE) >>
QuoteArgsSchema == << Field("symbols", "symbols", FALSE) >>
NewsArgsSchema ==
  << Field("symbol", "symbol", FALSE), Field("from", "date", FALSE), Field("to", "date", FALSE) >>
StockProfileArgsSchema == << Field("symbol", "symbol", FALSE) >>
OptionsChainArgsSchema ==
  << Field("symbol", "symbol", FALSE), Field("expirationDate", "date", TRUE) >>

FieldIssues(fld, x) ==
  IF fld.optional /\ x.t = "undefined" THEN << >>
  ELSE CASE fld.kind = "date" -> DateIssues(x, fld.name)
         [] fld.kind = "symbol" -> SymbolIssues(x, fld.name, 0)
         [] fld.kind = "symbols" -> SymbolsIssues(x, fld.name)

RECURSIVE ShapeIssues(_, _, _)
ShapeIssues(schema, input, i) ==
  IF i > Len(schema) THEN << >>
  ELSE FieldIssues(schema[i], Get(input, schema[i].name)) \o ShapeIssues(schema, input, i + 1)

ShapeKeys(schema) == { schema[i].name : i \in 1..Len(schema) }

\* schema.safeParse(input) of z.object({...}): never throws; unknown keys are
\* stripped from data; error.message is the serialised list of issues
safeParse(schema, input) ==
  IF input.t # "obj"
  THEN [success |-> FALSE, data |-> Undefined,
        message |-> Text(<< Issue("invalid_type", "", 0) >>)]
  ELSE LET issues == ShapeIssues(schema, input, 1)
       IN IF issues = << >>
          THEN [success |-> TRUE,
                data |-> Obj([k \in (ShapeKeys(schema) \cap DOMAIN input.v) |-> input.v[k]]),
                message |-> Text(<< >>)]
          ELSE [success |-> FALSE, data |-> Undefined, message |-> Text(issues)]

(***************************************************************************)
(* The Date object.  Time values are whole hours since the epoch (the      *)
(* server only handles midnights and whole-hour zone offsets); an invalid  *)
(* Date has valid = FALSE.                                                 *)
(***************************************************************************)
HoursPerDay == 24

Time(h) == [valid |-> TRUE, h |-> h]
InvalidDate == [valid |-> FALSE, h |-> 0]

IsLeapYear(y) == (y % 4 = 0 /\ y % 100 # 0) \/ y % 400 = 0

DaysInMonth(y, m) ==
  CASE m \in {1, 3, 5, 7, 8, 10, 12} -> 31
    [] m \in {4, 6, 9, 11} -> 30
    [] OTHER -> IF IsLeapYear(y) THEN 29 ELSE 28

\* ECMAScript DayFromYear
DayFromYear(y) ==
  365 * (y - 1970) + ((y - 1969) \div 4) - ((y - 1901) \div 100) + ((y - 1601) \div 400)

RECURSIVE DaysBeforeMonth(_, _)
DaysBeforeMonth(y, m) ==
  IF m <= 1 THEN 0 ELSE DaysBeforeMonth(y, m - 1) + DaysInMonth(y, m - 1)

\* ECMAScript MakeDay(year, month, date) with month counted from 1; a month
\* past December and a date past the end of the month roll over
MakeDay(year, month, date) ==
  LET ym == year + ((month - 1) \div 12)
      mn == ((month - 1) % 12) + 1
  IN DayFromYear(ym) + DaysBeforeMonth(ym, mn) + date - 1

\* ECMAScript Day(t) and TimeWithinDay(t)
Day(h) == h \div HoursPerDay
TimeWithinDay(h) == h % HoursPerDay

\* ECMAScript YearFromTime / MonthFromTime / DateFromTime, on a day number
YearFromDay(d) ==
  LET y0 == 1970 + (d \div 366)
  IN CHOOSE y \in y0..(y0 + 2 + (d \div 150000)) :
       DayFromYear(y) <= d /\ d < DayFromYear(y + 1)
MonthFromDay(d) ==
  LET y == YearFromDay(d)
      n == d - DayFromYear(y)
  IN CHOOSE m \in 1..12 : DaysBeforeMonth(y, m) <= n /\ n < DaysBeforeMonth(y, m) + DaysInMonth(y, m)
DateFromDay(d) ==
  LET y == YearFromDay(d)
  IN d - DayFromYear(y) - DaysBeforeMonth(y, MonthFromDay(d)) + 1

\* the process's time zone: standard offset from UTC in hours and, when the
\* zone observes daylight saving, the UTC hours at which it starts and ends
Zone(name, std, dst, start, end) ==
  [name |-> name, std |-> std, dst |-> dst, start |-> start, end |-> end]

\* ECMAScript LocalTZA(t, true): the offset in force at UTC time t
LocalTZA(z, h) == z.std + (IF z.dst /\ z.start <= h /\ h < z.end THEN 1 ELSE 0)

\* ECMAScript LocalTime(t)
LocalTime(z, h) == h + LocalTZA(z, h)

\* ECMAScript UTC(t) = t - LocalTZA(t, false): a local time that occurs twice
\* or not at all is read with the offset in force before the transition
UTCOf(z, lh) ==
  IF z.dst /\ LocalTZA(z, lh - (z.std + 1)) = z.std + 1
  THEN lh - (z.std + 1)
  ELSE lh - z.std

\* Date.prototype.getDate(): day of the month in LOCAL time
getDate(z, date) == DateFromDay(Day(LocalTime(z, date.h)))

\* Date.prototype.setDate(dt): replaces the day of the month in LOCAL time
setDate(z, date, dt) ==
  LET lt == LocalTime(z, date.h)
      d == Day(lt)
      newDay == MakeDay(YearFromDay(d), MonthFromDay(d), dt)
  IN Time(UTCOf(z, newDay * HoursPerDay + TimeWithinDay(lt)))

\* two decimal digits read as a number
Num2(c1, c2) == 10 * DigitVal(c1) + DigitVal(c2)

\* new Date("YYYY-MM-DD"): the date-only form is UTC midnight.  A month
\* outside 1..12 or a day outside 1..31 is an Invalid Date; a day past the end
\* of its month is an Invalid Date in a strict engine and rolls over into the
\* next month in a lenient one
NewDate(s, lenient) ==
  IF ~DateRegex(s) THEN InvalidDate
  ELSE LET y == 100 * Num2(s[1], s[2]) + Num2(s[3], s[4])
           m == Num2(s[6], s[7])
           d == Num2(s[9], s[10])
       IN IF m < 1 \/ m > 12 \/ d < 1 \/ d > 31 THEN InvalidDate
          ELSE IF d > DaysInMonth(y, m) /\ ~lenient THEN InvalidDate
          ELSE Time(MakeDay(y, m, d) * HoursPerDay)

Pad2(n) == << Digits[(n \div 10) + 1], Digits[(n % 10) + 1] >>
Pad4(n) == Pad2(n \div 100) \o Pad2(n % 100)
Pad6(n) == Pad2(n \div 10000) \o Pad4(n % 10000)

\* the year of Date.prototype.toISOString(): four digits up to 9999 and the
\* expanded form, a sign and six digits, beyond
IsoYear(y) == IF y <= 9999 THEN Pad4(y) ELSE << "+" >> \o Pad6(y)

\* finnhub-client.ts formatDate: date.toISOString().split("T")[0], the UTC
\* calendar date; toISOString throws a RangeError on an Invalid Date
formatDateThrows(date) == ~date.valid
formatDate(date) ==
  LET d == Day(date.h)
  IN IsoYear(YearFromDay(d)) \o <<"-">> \o Pad2(MonthFromDay(d)) \o <<"-">> \o Pad2(DateFromDay(d))

\* finnhub-client.ts addDays: new Date(date) then setDate(getDate() + days);
\* on an Invalid Date getDate() is NaN and the copy stays invalid
addDays(z, date, days) ==
  IF ~date.valid THEN InvalidDate
  ELSE setDate(z, date, getDate(z, date) + days)

(***************************************************************************)
(* finnhub-client.ts: FinnhubClient.  An async method is a chain of steps; *)
(* a step ends by returning a value, by throwing, or by awaiting fetch on  *)
(* a url with the method's live variables kept in `local`.                 *)
(***************************************************************************)
Return(v) == [kind |-> "return", value |-> v]
Throw(m) == [kind |-> "throw", message |-> m]
Fetch(endpoint, params, local) ==
  [kind |-> "fetch", endpoint |-> endpoint, params |-> params, local |-> local]

Local(op, from, to, symbols, quotes, expirationDate) ==
  [op |-> op, from |-> from, to |-> to, symbols |-> symbols, quotes |-> quotes,
   expirationDate |-> expirationDate]
NoLocal == Local("none", << >>, << >>, << >>, << >>, << >>)

\* the key the client is constructed with, and its baseUrl
ApiKey == << "k", "e", "y" >>
BaseUrl == "https://finnhub.io/api/v1"

RequestUrlTokenInHeader(endpoint, params) ==
  [base |-> BaseUrl, endpoint |-> endpoint, query |-> params,
   headers |-> << << "X-Finnhub-Token", ApiKey >> >>]

\* request, up to fetch: the url with token appended first, then every entry
\* of params in insertion order; fetch is called with the url alone, so the
\* request carries no header of the client's
RequestUrl(endpoint, params) ==
  [base |-> BaseUrl, endpoint |-> endpoint, query |-> << << "token", ApiKey >> >> \o params,
   headers |-> << >>]

\* the characters of the keys the client appends
KeyChars(key) ==
  CASE key = "token" -> << "t", "o", "k", "e", "n" >>
    [] key = "symbol" -> << "s", "y", "m", "b", "o", "l" >>
    [] key = "from" -> << "f", "r", "o", "m" >>
    [] key = "to" -> << "t", "o" >>
    [] key = "expirationDate" ->
         << "e", "x", "p", "i", "r", "a", "t", "i", "o", "n", "D", "a", "t", "e" >>

\* URLSearchParams writes a value in application/x-www-form-urlencoded form:
\* letters, digits and * - . _ stay, a space becomes +, any other character
\* becomes % and the two hexadecimal digits of its code
PercentEncoded ==
  ("&" :> << "%", "2", "6" >>) @@ ("=" :> << "%", "3", "D" >>) @@ ("%" :> << "%", "2", "5" >>)
    @@ ("+" :> << "%", "2", "B" >>) @@ ("?" :> << "%", "3", "F" >>) @@ ("#" :> << "%", "2", "3" >>)
    @@ ("/" :> << "%", "2", "F" >>) @@ (" " :> << "+" >>)

UrlEncodeChar(c) == IF c \in DOMAIN PercentEncoded THEN PercentEncoded[c] ELSE << c >>

RECURSIVE UrlEncode(_)
UrlEncode(chars) ==
  IF chars = << >> THEN << >> ELSE UrlEncodeChar(Head(chars)) \o UrlEncode(Tail(chars))

\* url.searchParams as url.toString() writes it: key=value joined by &
RECURSIVE searchParamsToString(_)
searchParamsToString(query) ==
  IF query = << >> THEN << >>
  ELSE KeyChars(query[1][1]) \o << "=" >> \o UrlEncode(query[1][2])
       \o (IF Len(query) = 1 THEN << >> ELSE << "&" >> \o searchParamsToString(Tail(query)))

\* what fetch delivers: a rejection, or a response with its status, its body
\* text and, when the body parses as JSON, the parsed value
Rejected == [kind |-> "reject", status |-> 0, statusText |-> "", text |-> "",
             parses |-> FALSE, json |-> Undefined]
Response(status, statusText, text, parses, json) ==
  [kind |-> "response", status |-> status, statusText |-> statusText, text |-> text,
   parses |-> parses, json |-> json]

\* response.ok
Ok(outcome) == outcome.status >= 200 /\ outcome.status <= 299

requestIgnoresStatus(outcome) ==
  IF outcome.kind = "reject" THEN Throw(Lit("fetch failed"))
  ELSE IF ~outcome.parses THEN Throw(Lit("Unexpected token in JSON"))
  ELSE Return(outcome.json)

\* request, from fetch on: throws on a rejected fetch, on a status that is not
\* ok and on a body that is not JSON, and returns the parsed body otherwise
request(outcome) ==
  IF outcome.kind = "reject" THEN Throw(Lit("fetch failed"))
  ELSE IF ~Ok(outcome)
  THEN Throw(Text(<< "Finnhub API error: ", outcome.status, " ", outcome.statusText >>
                  \o (IF outcome.text # "" THEN << " - ", outcome.text >> ELSE << >>)))
  ELSE IF ~outcome.parses THEN Throw(Lit("Unexpected token in JSON"))
  ELSE Return(outcome.json)

TypeError == Lit("TypeError")

normalizeOptionContractGreeksOrNull(opt, type) ==
  Obj([contractName |-> Get(opt, "contractName"),
       strike |-> Get(opt, "strike"),
       expirationDate |-> Get(opt, "expirationDate"),
       type |-> Lit(type),
       bid |-> OrElse(Get(opt, "bid"), Null),
       ask |-> OrElse(Get(opt, "ask"), Null),
       last |-> OrElse(Get(opt, "lastPrice"), Null),
       openInterest |-> Get(opt, "openInterest"),
       volume |-> Get(opt, "volume"),
       impliedVolatility |-> Get(opt, "impliedVolatility"),
       greeks |-> Obj([delta |-> OrElse(Get(opt, "delta"), Null),
                       gamma |-> OrElse(Get(opt, "gamma"), Null),
                       theta |-> OrElse(Get(opt, "theta"), Null),
                       rho |-> OrElse(Get(opt, "rho"), Null),
                       vega |-> OrElse(Get(opt, "vega"), Null)])])

normalizeOptionContractRawType(opt, type) ==
  Obj([contractName |-> Get(opt, "contractName"),
       strike |-> Get(opt, "strike"),
       expirationDate |-> Get(opt, "expirationDate"),
       type |-> OrElse(Get(opt, "type"), Lit(type)),
       bid |-> OrElse(Get(opt, "bid"), Null),
       ask |-> OrElse(Get(opt, "ask"), Null),
       last |-> OrElse(Get(opt, "lastPrice"), Null),
       openInterest |-> Get(opt, "openInterest"),
       volume |-> Get(opt, "volume"),
       impliedVolatility |-> Get(opt, "impliedVolatility"),
       greeks |-> Obj([delta |-> Coalesce(Get(opt, "delta"), Null),
                       gamma |-> Coalesce(Get(opt, "gamma"), Null),
                       theta |-> Coalesce(Get(opt, "theta"), Null),
                       rho |-> Coalesce(Get(opt, "rho"), Null),
                       vega |-> Coalesce(Get(opt, "vega"), Null)])])

normalizeOptionContract(opt, type) ==
  Obj([contractName |-> Get(opt, "contractName"),
       strike |-> Get(opt, "strike"),
       expirationDate |-> Get(opt, "expirationDate"),
       type |-> Lit(type),
       bid |-> OrElse(Get(opt, "bid"), Null),
       ask |-> OrElse(Get(opt, "ask"), Null),
       last |-> OrElse(Get(opt, "lastPrice"), Null),
       openInterest |-> Get(opt, "openInterest"),
       volume |-> Get(opt, "volume"),
       impliedVolatility |-> Get(opt, "impliedVolatility"),
       greeks |-> Obj([delta |-> Coalesce(Get(opt, "delta"), Null),
                       gamma |-> Coalesce(Get(opt, "gamma"), Null),
                       theta |-> Coalesce(Get(opt, "theta"), Null),
                       rho |-> Coalesce(Get(opt, "rho"), Null),
                       vega |-> Coalesce(Get(opt, "vega"), Null)])])

normalizeQuote(symbol, quote) ==
  Obj([symbol |-> Str(symbol),
       currentPrice |-> Get(quote, "c"),
       change |-> Coalesce(Get(quote, "d"), Num(0)),
       percentChange |-> Coalesce(Get(quote, "dp"), Num(0)),
       high |-> Get(quote, "h"),
       low |-> Get(quote, "l"),
       open |-> Get(quote, "o"),
       previousClose |-> Get(quote, "pc"),
       timestamp |-> Get(quote, "t")])

normalizeNewsKeepsId(news) ==
  Obj([headline |-> Get(news, "headine"),
       summary |-> Get(news, "summary"),
       source |-> Get(news, "source"),
       url |-> Get(news, "url"),
       datetime |-> Get(news, "datetime"),
       image |-> Get(news, "image"),
       related |-> Get(news, "related"),
       category |-> Get(news, "category"),
       id |-> Get(news, "id")])

normalizeNews(news) ==
  Obj([headline |-> Get(news, "headine"),
       summary |-> Get(news, "summary"),
       source |-> Get(news, "source"),
       url |-> Get(news, "url"),
       datetime |-> Get(news, "datetime"),
       image |-> Get(news, "image"),
       related |-> Get(news, "related"),
       category |-> Get(news, "category")])

EmptyString == Str(<< >>)

normalizeProfileSecondaryFirst(profile) ==
  Obj([name |-> OrElse(Get(profile, "name"), EmptyString),
       ticker |-> OrElse(Get(profile, "ticker"), EmptyString),
       exchange |-> OrElse(Get(profile, "exchange"), EmptyString),
       industry |-> OrElse(OrElse(Get(profile, "industry"), Get(profile, "finnhubIndustry")), EmptyString),
       weburl |-> OrElse(Get(profile, "weburl"), EmptyString),
       logo |-> OrElse(OrElse(Get(profile, "logo_url"), Get(profile, "logo")), EmptyString),
       description |-> OrElse(Get(profile, "description"), EmptyString),
       marketCap |-> OrElse(Get(profile, "marketCapitalization"), Num(0)),
       sharesOutstanding |-> OrElse(Get(profile, "shareOutstanding"), Num(0)),
       ipoDate |-> OrElse(OrElse(Get(profile, "ipoDate"), Get(profile, "ipo")), EmptyString),
       currency |-> OrElse(Get(profile, "currency"), EmptyString),
       country |-> OrElse(Get(profile, "country"), EmptyString),
       phone |-> OrElse(OrElse(Get(profile, "phoneNumber"), Get(profile, "phone")), EmptyString)])

normalizeProfile(profile) ==
  Obj([name |-> OrElse(Get(profile, "name"), EmptyString),
       ticker |-> OrElse(Get(profile, "ticker"), EmptyString),
       exchange |-> OrElse(Get(profile, "exchange"), EmptyString),
       industry |-> OrElse(OrElse(Get(profile, "finnhubIndustry"), Get(profile, "industry")), EmptyString),
       weburl |-> OrElse(Get(profile, "weburl"), EmptyString),
       logo |-> OrElse(OrElse(Get(profile, "logo"), Get(profile, "logo_url")), EmptyString),
       description |-> OrElse(Get(profile, "description"), EmptyString),
       marketCap |-> OrElse(Get(profile, "marketCapitalization"), Num(0)),
       sharesOutstanding |-> OrElse(Get(profile, "shareOutstanding"), Num(0)),
       ipoDate |-> OrElse(OrElse(Get(profile, "ipo"), Get(profile, "ipoDate")), EmptyString),
       currency |-> OrElse(Get(profile, "currency"), EmptyString),
       country |-> OrElse(Get(profile, "country"), EmptyString),
       phone |-> OrElse(OrElse(Get(profile, "phone"), Get(profile, "phoneNumber")), EmptyString)])

\* (surprise / estimate) * 100: a number when the division is exact, the
\* fraction otherwise, NaN when an operand is not a number
Percent(surprise, estimate) ==
  IF surprise.t # "num" \/ estimate.t # "num" THEN NaN
  ELSE IF (surprise.v * 100) % estimate.v = 0
  THEN Num((surprise.v * 100) \div estimate.v)
  ELSE [t |-> "frac", n |-> surprise.v * 100, d |-> estimate.v]

Surprise(actual, estimate) ==
  IF actual.t # "null" /\ estimate.t # "null" THEN Minus(actual, estimate) ELSE Null

SurprisePercent(surprise, estimate) ==
  IF surprise.t # "null" /\ estimate.t # "null" /\ NotZero(estimate)
  THEN Percent(surprise, estimate)
  ELSE Null

normalizeEarnings(item) ==
  LET epsSurprise == Surprise(Get(item, "epsActual"), Get(item, "epsEstimate"))
      revenueSurprise == Surprise(Get(item, "revenueActual"), Get(item, "revenueEstimate"))
  IN Obj([date |-> Get(item, "date"),
          symbol |-> Get(item, "symbol"),
          quarter |-> Text(<< "Q", Get(item, "quarter") >>),
          fiscalYear |-> Get(item, "year"),
          time |-> OrElse(Get(item, "hour"), Lit("unknown")),
          eps |-> Obj([estimate |-> Get(item, "epsEstimate"),
                       actual |-> Get(item, "epsActual"),
                       surprise |-> epsSurprise,
                       surprisePercent |-> SurprisePercent(epsSurprise, Get(item, "epsEstimate"))]),
          revenue |-> Obj([estimate |-> Get(item, "revenueEstimate"),
                           actual |-> Get(item, "revenueActual"),
                           surprise |-> revenueSurprise,
                           surprisePercent |->
                             SurprisePercent(revenueSurprise, Get(item, "revenueEstimate"))])])

\* getEarningsCalendar up to its request: z is the process's time zone, now
\* the clock read by new Date(), lenient the engine's reading of a day past
\* the end of its month
getEarningsCalendar(args, z, now, lenient) ==
  LET from == IF Truthy(Get(args, "from")) THEN Get(args, "from").v ELSE formatDate(Time(now))
      defaultTo == addDays(z, NewDate(from, lenient), 7)
      to == IF Truthy(Get(args, "to")) THEN Get(args, "to").v ELSE formatDate(defaultTo)
      symbol == IF Truthy(Get(args, "symbol"))
                THEN << << "symbol", ToUpperCase(Get(args, "symbol").v) >> >>
                ELSE << >>
  IN IF ~Truthy(Get(args, "to")) /\ formatDateThrows(defaultTo)
     THEN Throw(Lit("Invalid time value"))
     ELSE Fetch("/calendar/earnings", << << "from", from >>, << "to", to >> >> \o symbol,
                Local("earnings", from, to, << >>, << >>, << >>))

\* getEarningsCalendar from the response on
getEarningsCalendarDone(local, response) ==
  IF ~CanRead(response) THEN Throw(TypeError)
  ELSE LET list == OrElse(Get(response, "earningsCalendar"), Arr(<< >>))
       IN IF list.t # "arr" THEN Throw(TypeError)
          ELSE IF \E i \in 1..Len(list.v) : ~CanRead(list.v[i]) THEN Throw(TypeError)
          ELSE LET normalized == [i \in 1..Len(list.v) |-> normalizeEarnings(list.v[i])]
               IN Return(Obj([data |-> Arr(normalized),
                              count |-> Num(Len(normalized)),
                              dateRange |-> Obj([from |-> Str(local.from), to |-> Str(local.to)])]))

RECURSIVE getQuotesLoopOncePerSymbol(_, _)
getQuotesLoopOncePerSymbol(symbols, quotes) ==
  IF symbols = << >> THEN Return(Obj([quotes |-> Arr(quotes)]))
  ELSE IF \E i \in 1..Len(quotes) : quotes[i].v.symbol.v = ToUpperCase(Head(symbols).v)
  THEN getQuotesLoopOncePerSymbol(Tail(symbols), quotes)
  ELSE Fetch("/quote", << << "symbol", ToUpperCase(Head(symbols).v) >> >>,
             Local("quotes", << >>, << >>, symbols, quotes, << >>))

\* getQuotes at the head of its for-of loop, about to take the next symbol:
\* one request per symbol, awaited before the next one is taken
getQuotesLoop(symbols, quotes) ==
  IF symbols = << >> THEN Return(Obj([quotes |-> Arr(quotes)]))
  ELSE Fetch("/quote", << << "symbol", ToUpperCase(Head(symbols).v) >> >>,
             Local("quotes", << >>, << >>, symbols, quotes, << >>))

getQuotes(args) == getQuotesLoop(Get(args, "symbols").v, << >>)

getQuotesDoneBothNonZero(local, response) ==
  IF ~CanRead(response) THEN Throw(TypeError)
  ELSE LET upperSymbol == ToUpperCase(Head(local.symbols).v)
           quotes == IF NotZero(Get(response, "pc")) /\ NotZero(Get(response, "c"))
                     THEN Append(local.quotes, normalizeQuote(upperSymbol, response))
                     ELSE local.quotes
       IN getQuotesLoop(Tail(local.symbols), quotes)

\* the body of the loop after the await, then the next turn of the loop
getQuotesDone(local, response) ==
  IF ~CanRead(response) THEN Throw(TypeError)
  ELSE LET upperSymbol == ToUpperCase(Head(local.symbols).v)
           quotes == IF NotZero(Get(response, "pc")) \/ NotZero(Get(response, "c"))
                     THEN Append(local.quotes, normalizeQuote(upperSymbol, response))
                     ELSE local.quotes
       IN getQuotesLoop(Tail(local.symbols), quotes)

getNews(args) ==
  Fetch("/company-news",
        << << "symbol", ToUpperCase(Get(args, "symbol").v) >>,
           << "from", Get(args, "from").v >>,
           << "to", Get(args, "to").v >> >>,
        Local("news", << >>, << >>, << >>, << >>, << >>))

getNewsDone(local, response) ==
  IF response.t # "arr" THEN Throw(TypeError)
  ELSE IF \E i \in 1..Len(response.v) : ~CanRead(response.v[i]) THEN Throw(TypeError)
  ELSE LET news == [i \in 1..Len(response.v) |-> normalizeNews(response.v[i])]
       IN Return(Obj([news |-> Arr(news), count |-> Num(Len(news))]))

getStockProfileFromQuote(args) ==
  Fetch("/quote", << << "symbol", ToUpperCase(Get(args, "symbol").v) >> >>,
        Local("profile", << >>, << >>, << >>, << >>, << >>))

getStockProfile(args) ==
  Fetch("/stock/profile2", << << "symbol", ToUpperCase(Get(args, "symbol").v) >> >>,
        Local("profile", << >>, << >>, << >>, << >>, << >>))

getStockProfileDoneNotFoundThrows(local, response) ==
  IF ~CanRead(response) THEN Throw(TypeError)
  ELSE IF ~Truthy(Get(response, "ticker")) THEN Throw(Lit("Symbol not found"))
  ELSE Return(Obj([profile |-> normalizeProfile(response)]))

getStockProfileDone(local, response) ==
  IF ~CanRead(response) THEN Throw(TypeError)
  ELSE IF ~Truthy(Get(response, "ticker")) THEN Return(Obj([profile |-> Null]))
  ELSE Return(Obj([profile |-> normalizeProfile(response)]))

getOptionsChainWithoutDateFilter(args) ==
  Fetch("/stock/option-chain", << << "symbol", ToUpperCase(Get(args, "symbol").v) >> >>,
        Local("chain", << >>, << >>, << >>, << >>, Get(args, "expirationDate").v))

getOptionsChain(args) ==
  Fetch("/stock/option-chain",
        << << "symbol", ToUpperCase(Get(args, "symbol").v) >>,
           << "expirationDate", Get(args, "expirationDate").v >> >>,
        Local("chain", << >>, << >>, << >>, << >>, Get(args, "expirationDate").v))

\* item.options.CALL || [] and item.options.PUT || [], as the for-of loops see
\* them
ContractList(item, side) == OrElse(Get(Get(item, "options"), side), Arr(<< >>))

\* one turn of the outer loop throws when the bucket or its options cannot be
\* read, when a list cannot be iterated or when a contract cannot be read
BucketThrows(item) ==
  \/ ~CanRead(item)
  \/ ~CanRead(Get(item, "options"))
  \/ \E side \in {"CALL", "PUT"} :
       \/ ~CanIterate(ContractList(item, side))
       \/ \E i \in 1..Len(ElementsOf(ContractList(item, side))) :
            ~CanRead(ElementsOf(ContractList(item, side))[i])

\* the contracts one bucket pushes: its calls, then its puts
BucketOptions(item) ==
  LET calls == ElementsOf(ContractList(item, "CALL"))
      puts == ElementsOf(ContractList(item, "PUT"))
  IN [i \in 1..Len(calls) |-> normalizeOptionContract(calls[i], "call")]
     \o [i \in 1..Len(puts) |-> normalizeOptionContract(puts[i], "put")]

RECURSIVE AllOptions(_)
AllOptions(items) ==
  IF items = << >> THEN << >> ELSE BucketOptions(Head(items)) \o AllOptions(Tail(items))

getOptionsChainDone(local, response) ==
  IF ~CanRead(response) THEN Throw(TypeError)
  ELSE LET data == OrElse(Get(response, "data"), Arr(<< >>))
       IN IF ~CanIterate(data) THEN Throw(TypeError)
          ELSE IF \E i \in 1..Len(ElementsOf(data)) : BucketThrows(ElementsOf(data)[i])
          THEN Throw(TypeError)
          ELSE Return(Obj([chain |-> Obj([options |-> Arr(AllOptions(ElementsOf(data))),
                                          expirationDate |-> Str(local.expirationDate)])]))

getAvailableExpirations(symbol) ==
  Fetch("/stock/option-chain", << << "symbol", ToUpperCase(symbol.v) >> >>,
        Local("expirations", << >>, << >>, << >>, << >>, << >>))

\* item.optionsCount || (item.options.CALL?.length || 0) + (item.options.PUT?.length || 0)
OptionsCount(item) ==
  OrElse(Get(item, "optionsCount"),
         Plus(OrElse(LengthOf(Get(Get(item, "options"), "CALL")), Num(0)),
              OrElse(LengthOf(Get(Get(item, "options"), "PUT")), Num(0))))

\* the right operand of || is only evaluated, and item.options only read, when
\* item.optionsCount is falsy
SummaryThrows(item) ==
  \/ ~CanRead(item)
  \/ ~Truthy(Get(item, "optionsCount")) /\ ~CanRead(Get(item, "options"))

ExpirationSummary(item) ==
  Obj([expirationDate |-> Get(item, "expirationDate"),
       optionsCount |-> OptionsCount(item),
       putVolume |-> OrElse(Get(item, "putVolume"), Num(0)),
       callVolume |-> OrElse(Get(item, "callVolume"), Num(0)),
       putOpenInterest |-> OrElse(Get(item, "putOpenInterest"), Num(0)),
       callOpenInterest |-> OrElse(Get(item, "callOpenInterest"), Num(0)),
       impliedVolatility |-> OrElse(Get(item, "impliedVolatility"), Num(0))])

getAvailableExpirationsDoneSkipsEmpty(local, response) ==
  IF ~CanRead(response) THEN Throw(TypeError)
  ELSE LET data == OrElse(Get(response, "data"), Arr(<< >>))
       IN IF data.t # "arr" THEN Throw(TypeError)
          ELSE IF \E i \in 1..Len(data.v) : SummaryThrows(data.v[i]) THEN Throw(TypeError)
          ELSE LET expirations == [i \in 1..Len(data.v) |-> ExpirationSummary(data.v[i])]
                   listed == SelectSeq(expirations, LAMBDA e : e.v.optionsCount # Num(0))
               IN Return(Obj([availableExpirationDates |-> Arr(listed),
                              totalExpirations |-> Num(Len(data.v))]))

getAvailableExpirationsDone(local, response) ==
  IF ~CanRead(response) THEN Throw(TypeError)
  ELSE LET data == OrElse(Get(response, "data"), Arr(<< >>))
       IN IF data.t # "arr" THEN Throw(TypeError)
          ELSE IF \E i \in 1..Len(data.v) : SummaryThrows(data.v[i]) THEN Throw(TypeError)
          ELSE LET expirations == [i \in 1..Len(data.v) |-> ExpirationSummary(data.v[i])]
               IN Return(Obj([availableExpirationDates |-> Arr(expirations),
                              totalExpirations |-> Num(Len(expirations))]))

(***************************************************************************)
(* index.ts: the CallToolRequestSchema handler                             *)
(***************************************************************************)
ToolNames == { "finnhub.calendar.earnings", "finnhub.quote", "finnhub.news",
               "finnhub.stock.profile", "finnhub.options.chain" }

InvalidArgumentAsApiError(message) ==
  Obj([error |-> Lit("FINNHUB_API_ERROR"), message |-> message])

\* { error: "INVALID_ARGUMENT", message: parsed.error.message }
InvalidArgument(message) == Obj([error |-> Lit("INVALID_ARGUMENT"), message |-> message])

UnknownToolUnnamed(name) == Obj([error |-> Lit("Unknown tool")])

\* { error: `Unknown tool: ${name}` }
UnknownTool(name) == Obj([error |-> Lit("Unknown tool: " \o name)])

\* { error: "FINNHUB_API_ERROR", message: errorMessage }
ApiError(message) == Obj([error |-> Lit("FINNHUB_API_ERROR"), message |-> message])

\* { content: [{ type: "text", text: JSON.stringify(payload, null, 2) }] }
Envelope(payload) == [content |-> << [type |-> "text", text |-> JSONstringify(payload)] >>]
NoResult == [content |-> << >>]

\* the body of the try block, from the handler's entry to its first await or
\* return; env is what the process reads from its surroundings
CallToolBody(name, args, env) ==
  IF name = "finnhub.calendar.earnings"
  THEN LET parsed == safeParse(EarningsCalendarArgsSchema, args)
       IN IF ~parsed.success THEN Return(InvalidArgument(parsed.message))
          ELSE getEarningsCalendar(parsed.data, env.tz, env.now, env.lenient)
  ELSE IF name = "finnhub.quote"
  THEN LET parsed == safeParse(QuoteArgsSchema, args)
       IN IF ~parsed.success THEN Return(InvalidArgument(parsed.message))
          ELSE getQuotes(parsed.data)
  ELSE IF name = "finnhub.news"
  THEN LET parsed == safeParse(NewsArgsSchema, args)
       IN IF ~parsed.success THEN Return(InvalidArgument(parsed.message))
          ELSE getNews(parsed.data)
  ELSE IF name = "finnhub.stock.profile"
  THEN LET parsed == safeParse(StockProfileArgsSchema, args)
       IN IF ~parsed.success THEN Return(InvalidArgument(parsed.message))
          ELSE getStockProfile(parsed.data)
  ELSE IF name = "finnhub.options.chain"
  THEN LET parsed == safeParse(OptionsChainArgsSchema, args)
       IN IF ~parsed.success THEN Return(InvalidArgument(parsed.message))
          ELSE IF Truthy(Get(parsed.data, "expirationDate"))
          THEN getOptionsChain(Obj([symbol |-> Get(parsed.data, "symbol"),
                                    expirationDate |-> Get(parsed.data, "expirationDate")]))
          ELSE getAvailableExpirations(Get(parsed.data, "symbol"))
  ELSE Return(UnknownTool(name))

CallToolResumeSkipsFailedQuote(local, outcome) ==
  LET r == request(outcome)
  IN IF r.kind = "throw"
     THEN (IF local.op = "quotes" THEN getQuotesLoop(Tail(local.symbols), local.quotes) ELSE r)
     ELSE CASE local.op = "earnings" -> getEarningsCalendarDone(local, r.value)
            [] local.op = "quotes" -> getQuotesDone(local, r.value)
            [] local.op = "news" -> getNewsDone(local, r.value)
            [] local.op = "profile" -> getStockProfileDone(local, r.value)
            [] local.op = "chain" -> getOptionsChainDone(local, r.value)
            [] local.op = "expirations" -> getAvailableExpirationsDone(local, r.value)

\* the try block resumed by the outcome of the fetch it awaits: the rest of
\* request, then the rest of the client method that called it
CallToolResume(local, outcome) ==
  LET r == request(outcome)
  IN IF r.kind = "throw" THEN r
     ELSE CASE local.op = "earnings" -> getEarningsCalendarDone(local, r.value)
            [] local.op = "quotes" -> getQuotesDone(local, r.value)
            [] local.op = "news" -> getNewsDone(local, r.value)
            [] local.op = "profile" -> getStockProfileDone(local, r.value)
            [] local.op = "chain" -> getOptionsChainDone(local, r.value)
            [] local.op = "expirations" -> getAvailableExpirationsDone(local, r.value)

CatchNothing(step) == step

\* catch (error): whatever the try block throws becomes the error payload
Catch(step) == IF step.kind = "throw" THEN Return(ApiError(step.message)) ELSE step

(***************************************************************************)
(* The surroundings: time zones, clock readings, what callers send and     *)
(* what the provider answers                                               *)
(***************************************************************************)
\* zones with their 2024 daylight-saving period, in UTC hours
UTCZone == Zone("UTC", 0, FALSE, 0, 0)
NewYork == Zone("America/New_York", -5, TRUE,
                MakeDay(2024, 3, 10) * HoursPerDay + 7, MakeDay(2024, 11, 3) * HoursPerDay + 6)
Berlin == Zone("Europe/Berlin", 1, TRUE,
               MakeDay(2024, 3, 31) * HoursPerDay + 1, MakeDay(2024, 10, 27) * HoursPerDay + 1)
Zones == { UTCZone, NewYork, Berlin }

\* readings of the clock: 2024-03-04T15:00Z and 2024-12-30T23:00Z
Clock == { MakeDay(2024, 3, 4) * HoursPerDay + 15, MakeDay(2024, 12, 30) * HoursPerDay + 23 }

Env(tz, now, lenient) == [tz |-> tz, now |-> now, lenient |-> lenient]
NoEnv == Env(UTCZone, 0, FALSE)
\* only the earnings tool reads the zone, the clock and the Date parser
Envs(name) ==
  IF name = "finnhub.calendar.earnings"
  THEN { Env(z, n, l) : z \in Zones, n \in Clock, l \in BOOLEAN }
  ELSE { NoEnv }

SymLower == Str(<< "a", "a", "p", "l" >>)
SymUpper == Str(<< "M", "S", "F", "T" >>)
SymMixed == Str(<< "Z", "z" >>)
SymTen == Str(<< "A", "B", "C", "D", "E", "F", "G", "H", "I", "J" >>)
SymEleven == Str(<< "A", "B", "C", "D", "E", "F", "G", "H", "I", "J", "K" >>)
SymEmpty == Str(<< >>)
SymInject == Str(<< "a", "&", "t", "o", "k", "e", "n", "=", "x" >>)
DateJan28 == Str(<< "2", "0", "2", "4", "-", "0", "1", "-", "2", "8" >>)
DateMar05 == Str(<< "2", "0", "2", "4", "-", "0", "3", "-", "0", "5" >>)
DateMar24 == Str(<< "2", "0", "2", "4", "-", "0", "3", "-", "2", "4" >>)
DateMar28 == Str(<< "2", "0", "2", "4", "-", "0", "3", "-", "2", "8" >>)
DateOct30 == Str(<< "2", "0", "2", "4", "-", "1", "0", "-", "3", "0" >>)
DateDec28 == Str(<< "2", "0", "2", "4", "-", "1", "2", "-", "2", "8" >>)
DateFeb30 == Str(<< "2", "0", "2", "4", "-", "0", "2", "-", "3", "0" >>)
DateY9999 == Str(<< "9", "9", "9", "9", "-", "1", "2", "-", "2", "8" >>)
DateMonth13 == Str(<< "2", "0", "2", "4", "-", "1", "3", "-", "0", "1" >>)
DateShort == Str(<< "2", "0", "2", "4", "-", "1", "-", "2", "8" >>)
DateSlashes == Str(<< "2", "0", "2", "4", "/", "0", "1", "/", "2", "8" >>)
DateLong == Str(<< "2", "0", "2", "4", "-", "0", "1", "-", "2", "8", "1" >>)
DateLetters == Str(<< "2", "0", "2", "4", "-", "0", "a", "-", "2", "8" >>)

ValidSymbols == { SymLower, SymUpper, SymMixed, SymTen }
BadSymbols == { SymEleven, SymEmpty, Num(5), Null }
RealDates == { DateJan28, DateMar05, DateMar24, DateMar28, DateOct30, DateDec28 }
PatternDates == RealDates \cup { DateFeb30, DateMonth13 }
BadDates == { DateShort, DateSlashes, DateLong, DateLetters, Num(20240128), Null }

\* an argument bag with field f set to x, or without it when x is undefined
Put(o, f, x) == IF x.t = "undefined" THEN o ELSE (f :> x) @@ o

EarningsBags ==
  { Obj(Put(Put(Put(<< >>, "from", f), "to", t), "symbol", sy)) :
      f \in PatternDates \cup { Undefined, DateShort, Null },
      t \in { Undefined, DateDec28, DateSlashes },
      sy \in { Undefined, SymLower, SymEleven } }
  \cup { Obj([from |-> DateY9999]) }

\* lists of at most n of the values in S
ListsOf(S, n) == UNION { [1..k -> S] : k \in 0..n }

SymbolLists ==
  ListsOf({ SymLower, SymMixed }, MaxSymbols)
    \cup { << SymLower, SymEleven >>, << Num(5) >>, [i \in 1..(SymbolsMax + 1) |-> SymUpper] }

QuoteBags ==
  { Obj([symbols |-> Arr(l)]) : l \in SymbolLists } \cup { Obj([symbols |-> SymLower]) }

NewsBags ==
  { Obj(Put(Put(Put(<< >>, "symbol", sy), "from", f), "to", t)) :
      sy \in { Undefined, SymLower, SymEleven },
      f \in { Undefined, DateJan28, DateShort },
      t \in { Undefined, DateDec28, DateLetters } }

ProfileBags ==
  { Obj(Put(<< >>, "symbol", sy)) : sy \in ValidSymbols \cup BadSymbols }
    \cup { Obj([symbol |-> SymUpper, exchange |-> Lit("US")]),
           Obj([symbol |-> SymInject, token |-> Lit("mine")]) }

OptionsBags ==
  { Obj(Put(Put(<< >>, "symbol", sy), "expirationDate", d)) :
      sy \in { Undefined, SymLower, SymEmpty },
      d \in { Undefined, DateJan28, DateMonth13, DateLong, Null } }

\* request.params.arguments: any JSON value, or undefined when left out
ArgumentBags ==
  EarningsBags \cup QuoteBags \cup NewsBags \cup ProfileBags \cup OptionsBags
    \cup { Undefined, Null, Arr(<< >>), SymLower }

\* request.params.name
CalledNames ==
  ToolNames \cup { "calendar.earnings", "quote", "news", "stock.profile", "options.chain",
                   "finnhub.candles" }

\* records of the provider
EarningsFull ==
  Obj([date |-> Lit("2024-01-30"), symbol |-> Lit("AAPL"), epsActual |-> Num(3),
       epsEstimate |-> Num(2), hour |-> Lit("amc"), quarter |-> Num(1),
       revenueActual |-> Num(120), revenueEstimate |-> Num(100), year |-> Num(2024)])
EarningsZeroEstimate ==
  Obj([date |-> Lit("2024-01-31"), symbol |-> Lit("MSFT"), epsActual |-> Num(1),
       epsEstimate |-> Num(0), hour |-> EmptyString, quarter |-> Num(2),
       revenueActual |-> Null, revenueEstimate |-> Null, year |-> Num(2024)])
EarningsSparse == Obj([date |-> Lit("2024-02-01"), symbol |-> Lit("ZZ"), epsActual |-> Num(4)])

QuoteLive ==
  Obj([c |-> Num(5), d |-> Num(1), dp |-> Num(25), h |-> Num(6), l |-> Num(4), o |-> Num(4),
       pc |-> Num(4), t |-> Num(1700)])
QuoteZero ==
  Obj([c |-> Num(0), d |-> Null, dp |-> Null, h |-> Num(0), l |-> Num(0), o |-> Num(0),
       pc |-> Num(0), t |-> Num(0)])
QuoteNoPrice ==
  Obj([c |-> Num(0), d |-> Null, dp |-> Null, h |-> Num(0), l |-> Num(0), o |-> Num(0),
       pc |-> Num(4), t |-> Num(1600)])
QuoteNoClose == Obj([c |-> Num(7), pc |-> Num(0), t |-> Num(1800)])

NewsOne ==
  Obj([category |-> Lit("company"), datetime |-> Num(1700), headine |-> Lit("Apple up"),
       id |-> Num(1), image |-> Lit("a.png"), related |-> Lit("AAPL"), source |-> Lit("wire"),
       summary |-> Lit("s"), url |-> Lit("u")])
NewsTwo == Obj([headine |-> Lit("Apple down"), id |-> Num(2)])

ProfileFull ==
  Obj([ticker |-> Lit("AAPL"), name |-> Lit("Apple"), finnhubIndustry |-> Lit("Technology"),
       industry |-> Lit("Hardware"), logo |-> EmptyString, logo_url |-> Lit("l.png"),
       marketCapitalization |-> Num(3000), ipo |-> Lit("1980-12-12")])
ProfileNoTicker == Obj([ticker |-> EmptyString, name |-> Lit("Nobody")])

CallOne ==
  Obj([contractName |-> Lit("C1"), type |-> Lit("Call"), strike |-> Num(100), bid |-> Num(1),
       ask |-> Num(2), lastPrice |-> Num(1), delta |-> Num(1), gamma |-> Num(0)])
CallTwo == Obj([contractName |-> Lit("C2"), type |-> Lit("put"), strike |-> Num(110), bid |-> Num(0)])
CallThree == Obj([contractName |-> Lit("C3"), strike |-> Num(120)])
PutOne == Obj([contractName |-> Lit("P1"), type |-> Lit("call"), strike |-> Num(100)])
PutTwo == Obj([contractName |-> Lit("P2"), type |-> Lit("Put"), strike |-> Num(90), ask |-> Num(3)])

BucketCounted ==
  Obj([expirationDate |-> Lit("2024-06-21"), optionsCount |-> Num(3), putVolume |-> Num(10),
       options |-> Obj([CALL |-> Arr(<< CallOne, CallTwo >>), PUT |-> Arr(<< PutOne >>)])])
BucketUncounted ==
  Obj([expirationDate |-> Lit("2024-07-19"),
       options |-> Obj([CALL |-> Arr(<< CallThree >>)])])
BucketCountZero ==
  Obj([expirationDate |-> Lit("2024-08-16"), optionsCount |-> Num(0),
       options |-> Obj([CALL |-> Arr(<< CallOne >>), PUT |-> Arr(<< PutTwo >>)])])
BucketCountOnly == Obj([expirationDate |-> Lit("2024-09-20"), optionsCount |-> Num(7)])
BucketOverride ==
  Obj([expirationDate |-> Lit("2024-10-18"), optionsCount |-> Num(9),
       options |-> Obj([CALL |-> Arr(<< CallOne >>), PUT |-> Arr(<< >>)])])
BucketEmpty ==
  Obj([expirationDate |-> Lit("2024-11-15"),
       options |-> Obj([CALL |-> Arr(<< >>), PUT |-> Arr(<< >>)])])
BucketBare == Obj([expirationDate |-> Lit("2024-12-20")])

\* response bodies that parse as JSON
Bodies ==
  { Null, EmptyObj,
    Obj([earningsCalendar |-> Arr(<< EarningsFull, EarningsZeroEstimate >>)]),
    Obj([earningsCalendar |-> Arr(<< EarningsSparse >>)]),
    Obj([earningsCalendar |-> Arr(<< Null >>)]),
    QuoteLive, QuoteZero, QuoteNoPrice, QuoteNoClose,
    Arr(<< NewsOne, NewsTwo >>), Arr(<< >>),
    ProfileFull, ProfileNoTicker,
    Obj([data |-> Arr(<< BucketCounted, BucketUncounted >>)]),
    Obj([data |-> Arr(<< BucketCountZero >>)]),
    Obj([data |-> Arr(<< BucketCountOnly, BucketOverride >>)]),
    Obj([data |-> Arr(<< BucketUncounted, BucketEmpty, BucketCounted >>)]),
    Obj([data |-> Arr(<< BucketBare >>)]),
    Obj([data |-> Arr(<< >>)]) }

\* what fetch can deliver
Outcomes ==
  { Rejected,
    Response(404, "Not Found", "", FALSE, Undefined),
    Response(429, "Too Many Requests", "API limit reached", FALSE, Undefined),
    Response(200, "OK", "<html>", FALSE, Undefined) }
    \cup { Response(200, "OK", "json", TRUE, b) : b \in Bodies }

(***************************************************************************)
(* The server as a state machine: one tool call at a time                  *)
(***************************************************************************)
VARIABLES pc, name, args, env, local, requests, responses, result, thrown
vars == << pc, name, args, env, local, requests, responses, result, thrown >>

Init ==
  /\ pc = "idle"
  /\ name = ""
  /\ args = Undefined
  /\ env = NoEnv
  /\ local = NoLocal
  /\ requests = << >>
  /\ responses = << >>
  /\ result = NoResult
  /\ thrown = FALSE

\* where a step of the handler leaves the call: awaiting a fetch, returned
\* with an envelope, or ended by an exception the handler did not catch
Settle(step) ==
  /\ pc' = IF step.kind = "fetch" THEN "fetching" ELSE "returned"
  /\ local' = IF step.kind = "fetch" THEN step.local ELSE NoLocal
  /\ requests' = IF step.kind = "fetch"
                 THEN Append(requests, RequestUrl(step.endpoint, step.params))
                 ELSE requests
  /\ result' = IF step.kind = "return" THEN Envelope(step.value) ELSE NoResult
  /\ thrown' = (step.kind = "throw")

\* the transport hands a tools/call request to the handler
CallTool(n, a, e) ==
  /\ pc = "idle"
  /\ name' = n
  /\ args' = a
  /\ env' = e
  /\ responses' = << >>
  /\ Settle(Catch(CallToolBody(n, a, e)))

\* the awaited fetch settles and the handler runs on
Respond(outcome) ==
  /\ pc = "fetching"
  /\ responses' = Append(responses, outcome)
  /\ Settle(Catch(CallToolResume(local, outcome)))
  /\ UNCHANGED << name, args, env >>

\* the transport sends the envelope; the call leaves nothing behind
Deliver ==
  /\ pc = "returned"
  /\ pc' = "idle"
  /\ name' = ""
  /\ args' = Undefined
  /\ env' = NoEnv
  /\ local' = NoLocal
  /\ requests' = << >>
  /\ responses' = << >>
  /\ result' = NoResult
  /\ thrown' = FALSE

Next ==
  \/ \E n \in CalledNames : \E a \in ArgumentBags : \E e \in Envs(n) : CallTool(n, a, e)
  \/ \E outcome \in Outcomes : Respond(outcome)
  \/ Deliver

Spec == Init /\ [][Next]_vars

(***************************************************************************)
(* Properties of the call-tool handler                                     *)
(***************************************************************************)
\* the JSON document of the returned envelope
Payload == result.content[1].text

OneTextEnvelope ==
  /\ Len(result.content) = 1
  /\ DOMAIN result.content[1] = { "type", "text" }
  /\ result.content[1].type = "text"
  /\ Payload.t = "obj"

IsErrorPayload == "error" \in DOMAIN Payload.v
ErrorIs(kind) == IsErrorPayload /\ Payload.v.error = Lit(kind)

SuccessShapes ==
  { { "data", "count", "dateRange" }, { "quotes" }, { "news", "count" }, { "profile" },
    { "chain" }, { "availableExpirationDates", "totalExpirations" } }

LastResponse == responses[Len(responses)]

\* C1: every tool call, whatever its name, its arguments and the outcome of
\* its upstream requests, returns exactly one well-formed envelope (a success
\* payload, or an error payload with an `error` field), and no exception
\* leaves the handler.
C1_EveryCallReturnsOneEnvelope ==
  /\ ~thrown
  /\ pc # "returned" => result = NoResult
  /\ pc = "returned" =>
       /\ OneTextEnvelope
       /\ \/ IsErrorPayload /\ Payload.v.error.t = "lit"
          \/ DOMAIN Payload.v \in SuccessShapes

\* a call whose upstream answered 200 with a body that is not JSON has
\* returned an error envelope
C1_Witness ==
  /\ pc = "returned"
  /\ responses # << >>
  /\ Ok(LastResponse)
  /\ ~LastResponse.parses
  /\ OneTextEnvelope
  /\ ErrorIs("FINNHUB_API_ERROR")

\* C2: a call whose tool name is not a registered tool returns
\* { error: "Unknown tool: <name>" } and issues no upstream request, whatever
\* the arguments.
C2_UnknownToolTouchesNoNetwork ==
  (pc # "idle" /\ name \notin ToolNames) =>
     /\ pc = "returned"
     /\ requests = << >>
     /\ responses = << >>
     /\ OneTextEnvelope
     /\ Payload = Obj([error |-> Lit("Unknown tool: " \o name)])

\* an unregistered name called with arguments that would suit the quote tool
C2_Witness ==
  /\ pc = "returned"
  /\ name = "finnhub.candles"
  /\ args = Obj([symbols |-> Arr(<< SymLower >>)])
  /\ requests = << >>
  /\ IsErrorPayload

(***************************************************************************)
(* The argument rules of the five tools, stated on the argument object     *)
(***************************************************************************)
DigitChars == { "0", "1", "2", "3", "4", "5", "6", "7", "8", "9" }

\* a string of 1 to 10 characters
IsSymbolText(x) == x.t = "str" /\ Len(x.v) >= 1 /\ Len(x.v) <= 10

\* a string of the form dddd-dd-dd
IsDateText(x) ==
  /\ x.t = "str"
  /\ Len(x.v) = 10
  /\ \A i \in 1..10 : IF i \in { 5, 8 } THEN x.v[i] = "-" ELSE x.v[i] \in DigitChars

\* an array of 1 to 50 strings of 1 to 10 characters
IsSymbolList(x) ==
  /\ x.t = "arr"
  /\ Len(x.v) >= 1
  /\ Len(x.v) <= 50
  /\ \A i \in 1..Len(x.v) : IsSymbolText(x.v[i])

Given(bag, f) == bag.t = "obj" /\ f \in DOMAIN bag.v

Rules(tool, bag) ==
  /\ bag.t = "obj"
  /\ CASE tool = "finnhub.calendar.earnings" ->
            /\ Given(bag, "from") => IsDateText(bag.v.from)
            /\ Given(bag, "to") => IsDateText(bag.v.to)
            /\ Given(bag, "symbol") => IsSymbolText(bag.v.symbol)
       [] tool = "finnhub.quote" ->
            Given(bag, "symbols") /\ IsSymbolList(bag.v.symbols)
       [] tool = "finnhub.news" ->
            /\ Given(bag, "symbol") /\ IsSymbolText(bag.v.symbol)
            /\ Given(bag, "from") /\ IsDateText(bag.v.from)
            /\ Given(bag, "to") /\ IsDateText(bag.v.to)
       [] tool = "finnhub.stock.profile" ->
            Given(bag, "symbol") /\ IsSymbolText(bag.v.symbol)
       [] tool = "finnhub.options.chain" ->
            /\ Given(bag, "symbol") /\ IsSymbolText(bag.v.symbol)
            /\ Given(bag, "expirationDate") => IsDateText(bag.v.expirationDate)
       [] OTHER -> FALSE

\* the schema the handler parses a tool's arguments with
SchemaOf(tool) ==
  CASE tool = "finnhub.calendar.earnings" -> EarningsCalendarArgsSchema
    [] tool = "finnhub.quote" -> QuoteArgsSchema
    [] tool = "finnhub.news" -> NewsArgsSchema
    [] tool = "finnhub.stock.profile" -> StockProfileArgsSchema
    [] tool = "finnhub.options.chain" -> OptionsChainArgsSchema

\* C3: for each of the five tools, a call whose argument bag breaks the tool's
\* rules returns the error envelope of kind INVALID_ARGUMENT carrying the
\* validator's message, and no upstream request is issued during the call.
C3_InvalidArgumentsTouchNoNetwork ==
  (pc # "idle" /\ name \in ToolNames /\ ~Rules(name, args)) =>
     /\ pc = "returned"
     /\ requests = << >>
     /\ responses = << >>
     /\ OneTextEnvelope
     /\ DOMAIN Payload.v = { "error", "message" }
     /\ Payload.v.error = Lit("INVALID_ARGUMENT")
     /\ Payload.v.message = safeParse(SchemaOf(name), args).message
     /\ Payload.v.message.v # << >>

\* the quote tool called with 51 symbols
C3_Witness ==
  /\ pc = "returned"
  /\ name = "finnhub.quote"
  /\ args.t = "obj"
  /\ Given(args, "symbols")
  /\ args.v.symbols.t = "arr"
  /\ Len(args.v.symbols.v) = 51
  /\ ErrorIs("INVALID_ARGUMENT")
  /\ requests = << >>

\* the names of section 6 of the specification
ShortNames == { "calendar.earnings", "quote", "news", "stock.profile", "options.chain" }

\* C4 as claimed: a call named calendar.earnings, quote, news, stock.profile
\* or options.chain with valid arguments runs its orchestrator and does not
\* return the unknown-tool envelope.
C4_ShortNamesResolve ==
  (pc = "returned" /\ name \in ShortNames /\ Rules("finnhub." \o name, args)) =>
     ~(IsErrorPayload /\ Payload.v.error = Lit("Unknown tool: " \o name))

EndpointOf(tool) ==
  CASE tool = "finnhub.calendar.earnings" -> "/calendar/earnings"
    [] tool = "finnhub.quote" -> "/quote"
    [] tool = "finnhub.news" -> "/company-news"
    [] tool = "finnhub.stock.profile" -> "/stock/profile2"
    [] tool = "finnhub.options.chain" -> "/stock/option-chain"

OpOf(tool, bag) ==
  CASE tool = "finnhub.calendar.earnings" -> "earnings"
    [] tool = "finnhub.quote" -> "quotes"
    [] tool = "finnhub.news" -> "news"
    [] tool = "finnhub.stock.profile" -> "profile"
    [] tool = "finnhub.options.chain" ->
         IF Given(bag, "expirationDate") THEN "chain" ELSE "expirations"

\* C4 amended: the dispatcher resolves the five names
\* finnhub.calendar.earnings, finnhub.quote, finnhub.news,
\* finnhub.stock.profile and finnhub.options.chain: a call with one of them
\* and valid arguments runs the tool's orchestrator (every request goes to the
\* tool's endpoint, and the call ends neither in the unknown-tool envelope nor
\* in INVALID_ARGUMENT); the names without the finnhub. prefix are unknown.
C4_PrefixedNamesResolve ==
  /\ (pc # "idle" /\ name \in ToolNames /\ Rules(name, args)) =>
       /\ \A i \in 1..Len(requests) : requests[i].endpoint = EndpointOf(name)
       /\ pc = "fetching" => local.op = OpOf(name, args)
       /\ pc = "returned" =>
            /\ IsErrorPayload => Payload.v.error = Lit("FINNHUB_API_ERROR")
            /\ requests # << >> \/ name = "finnhub.calendar.earnings"
  /\ (pc = "returned" /\ name \in ShortNames) =>
       Payload = Obj([error |-> Lit("Unknown tool: " \o name)])

\* the profile tool, called by its registered name, awaits /stock/profile2
C4_Witness ==
  /\ pc = "fetching"
  /\ name = "finnhub.stock.profile"
  /\ Rules(name, args)
  /\ Len(requests) = 1
  /\ requests[1].endpoint = "/stock/profile2"

(***************************************************************************)
(* Validation alone: every schema applied to every sampled argument value  *)
(***************************************************************************)
FiftySymbols == Obj([symbols |-> Arr([i \in 1..50 |-> SymTen])])

ParseInputs ==
  ArgumentBags
    \cup { FiftySymbols,
           Obj([symbols |-> Arr(<< SymEmpty >>)]),
           Obj([symbol |-> SymTen, from |-> DateJan28, to |-> DateFeb30]),
           Obj([from |-> Num(20240128)]),
           Obj([symbol |-> SymUpper, expirationDate |-> DateLetters]) }

ParseInit ==
  /\ pc = "parsing"
  /\ name \in ToolNames
  /\ args \in ParseInputs
  /\ env = NoEnv
  /\ local = NoLocal
  /\ requests = << >>
  /\ responses = << >>
  /\ result = NoResult
  /\ thrown = FALSE

\* schema.safeParse(args)
Validate ==
  /\ pc = "parsing"
  /\ pc' = "parsed"
  /\ result' = safeParse(SchemaOf(name), args)
  /\ UNCHANGED << name, args, env, local, requests, responses, thrown >>

ParseNext == Validate

SpecParse == ParseInit /\ [][ParseNext]_vars

\* C5: validation accepts an argument object exactly when the tool's rules
\* hold (optional and required fields, symbols of 1 to 10 characters, 1 to 50
\* quote symbols, dates of the form dddd-dd-dd); every violation comes back as
\* a failure result with a message, not as a thrown error, and an accepted
\* bag comes back with the schema's fields as given.
C5_ValidationFollowsTheRules ==
  pc = "parsed" =>
     /\ result.success \in BOOLEAN
     /\ result.success <=> Rules(name, args)
     /\ ~result.success => result.message.v # << >>
     /\ result.success =>
          /\ result.data.t = "obj"
          /\ DOMAIN result.data.v = DOMAIN args.v \cap ShapeKeys(SchemaOf(name))
          /\ \A k \in DOMAIN result.data.v : result.data.v[k] = args.v[k]

\* a list of exactly 50 symbols is accepted and a list of 51 is refused
C5_Witness ==
  /\ pc = "parsed"
  /\ name = "finnhub.quote"
  /\ args = FiftySymbols
  /\ result.success

C5_WitnessRefused ==
  /\ pc = "parsed"
  /\ name = "finnhub.news"
  /\ args = Obj([symbol |-> SymLower, from |-> DateShort, to |-> DateDec28])
  /\ ~result.success

(***************************************************************************)
(* Properties of the orchestrators                                         *)
(***************************************************************************)
\* the value of a query parameter of a request
QueryValue(req, key) ==
  req.query[CHOOSE i \in 1..Len(req.query) : req.query[i][1] = key][2]

\* year, month and day written in a string of the form dddd-dd-dd
CivilOf(s) ==
  << 1000 * DigitVal(s[1]) + 100 * DigitVal(s[2]) + 10 * DigitVal(s[3]) + DigitVal(s[4]),
     10 * DigitVal(s[6]) + DigitVal(s[7]),
     10 * DigitVal(s[9]) + DigitVal(s[10]) >>

\* a day that exists in the calendar
IsCalendarDate(s) ==
  /\ CivilOf(s)[2] \in 1..12
  /\ CivilOf(s)[3] \in 1..DaysInMonth(CivilOf(s)[1], CivilOf(s)[2])

\* the day after a calendar day
NextDay(c) ==
  IF c[3] < DaysInMonth(c[1], c[2]) THEN << c[1], c[2], c[3] + 1 >>
  ELSE IF c[2] < 12 THEN << c[1], c[2] + 1, 1 >>
  ELSE << c[1] + 1, 1, 1 >>

RECURSIVE DaysLater(_, _)
DaysLater(c, n) == IF n = 0 THEN c ELSE DaysLater(NextDay(c), n - 1)

\* C6 as claimed: an earnings call whose `from` is a calendar date and whose
\* `to` is omitted sends upstream, and returns in dateRange, the calendar date
\* 7 days after `from`, whatever the time zone of the process and its
\* daylight-saving transitions.
C6_DefaultToIsSevenDaysAfterFrom ==
  (/\ pc # "idle"
   /\ name = "finnhub.calendar.earnings"
   /\ Rules(name, args)
   /\ Given(args, "from")
   /\ IsCalendarDate(args.v.from.v)
   /\ ~Given(args, "to")) =>
     /\ Len(requests) = 1
     /\ QueryValue(requests[1], "from") = args.v.from.v
     /\ IsDateText(Str(QueryValue(requests[1], "to")))
     /\ CivilOf(QueryValue(requests[1], "to")) = DaysLater(CivilOf(args.v.from.v), 7)
     /\ (pc = "returned" /\ ~IsErrorPayload) =>
          Payload.v.dateRange.v.to = Str(QueryValue(requests[1], "to"))

RequestedSymbols == args.v.symbols.v

\* every request of the call was answered 2xx with a JSON body that can be read
AllAnswered ==
  \A i \in 1..Len(responses) :
    Ok(responses[i]) /\ responses[i].parses /\ CanRead(responses[i].json)

\* the raw quote of the i-th request is not the all-zero quote
NotAllZero(i) ==
  ~(Get(responses[i].json, "pc") = Num(0) /\ Get(responses[i].json, "c") = Num(0))

RECURSIVE KeptSymbols(_)
KeptSymbols(i) ==
  IF i > Len(RequestedSymbols) THEN << >>
  ELSE (IF NotAllZero(i) THEN << Str(ToUpperCase(RequestedSymbols[i].v)) >> ELSE << >>)
       \o KeptSymbols(i + 1)

\* C7: when every upstream call of a quote call succeeds, `quotes` holds, in
\* the order requested, exactly the uppercased symbols whose raw quote has
\* pc != 0 or c != 0; a symbol whose raw quote has pc and c both zero is left
\* out and is no error.
C7_QuotesAreTheNonZeroSubsequence ==
  (/\ pc = "returned"
   /\ name = "finnhub.quote"
   /\ Rules(name, args)
   /\ Len(responses) = Len(RequestedSymbols)
   /\ AllAnswered) =>
     /\ OneTextEnvelope
     /\ DOMAIN Payload.v = { "quotes" }
     /\ Payload.v.quotes.t = "arr"
     /\ [i \in 1..Len(Payload.v.quotes.v) |-> Payload.v.quotes.v[i].v.symbol] = KeptSymbols(1)

\* two symbols asked, the second answered with the all-zero quote: one quote
C7_Witness ==
  /\ pc = "returned"
  /\ name = "finnhub.quote"
  /\ args = Obj([symbols |-> Arr(<< SymLower, SymMixed >>)])
  /\ Len(responses) = 2
  /\ responses[1].json = QuoteNoPrice
  /\ responses[2].json = QuoteZero
  /\ Len(Payload.v.quotes.v) = 1
  /\ Payload.v.quotes.v[1].v.symbol = Str(<< "A", "A", "P", "L" >>)

\* C8: a successful call has issued exactly 1 upstream request for earnings,
\* news, profile and options chain (either mode) and exactly one per requested
\* symbol, duplicates included and at most 50, for quotes; no request is
\* retried or repeated: a request that fails is the last of its call.
C8_RequestsPerCallAreFixed ==
  /\ Len(requests) = Len(responses) + (IF pc = "fetching" THEN 1 ELSE 0)
  /\ \A i \in 1..(Len(responses) - 1) : Ok(responses[i]) /\ responses[i].parses
  /\ (pc = "returned" /\ name \in ToolNames /\ ~IsErrorPayload) =>
       /\ Len(requests) = (IF name = "finnhub.quote" THEN Len(RequestedSymbols) ELSE 1)
       /\ Len(requests) <= 50
  /\ (name = "finnhub.quote" /\ requests # << >>) =>
       /\ Len(requests) <= Len(RequestedSymbols)
       /\ \A i \in 1..Len(requests) :
            /\ requests[i].endpoint = "/quote"
            /\ QueryValue(requests[i], "symbol") = ToUpperCase(RequestedSymbols[i].v)

\* the same symbol asked twice is fetched twice
C8_Witness ==
  /\ pc = "returned"
  /\ name = "finnhub.quote"
  /\ args = Obj([symbols |-> Arr(<< SymLower, SymLower >>)])
  /\ ~IsErrorPayload
  /\ Len(requests) = 2
  /\ Len(Payload.v.quotes.v) = 2

\* a chain response whose buckets each carry an options object with lists of
\* contracts
WellFormedChain(b) ==
  /\ b.t = "obj"
  /\ Given(b, "data")
  /\ b.v.data.t = "arr"
  /\ \A i \in 1..Len(b.v.data.v) :
       LET bucket == b.v.data.v[i]
       IN /\ bucket.t = "obj"
          /\ Given(bucket, "options")
          /\ bucket.v.options.t = "obj"
          /\ \A side \in { "CALL", "PUT" } :
               Given(bucket.v.options, side) =>
                 /\ bucket.v.options.v[side].t = "arr"
                 /\ \A j \in 1..Len(bucket.v.options.v[side].v) :
                      bucket.v.options.v[side].v[j].t = "obj"

\* the contracts a bucket lists on one side
SideOf(bucket, side) ==
  IF Given(bucket, "options") /\ bucket.v.options.t = "obj" /\ Given(bucket.v.options, side)
     /\ bucket.v.options.v[side].t = "arr"
  THEN bucket.v.options.v[side].v
  ELSE << >>

RECURSIVE ContractsOf(_, _)
ContractsOf(buckets, side) ==
  IF buckets = << >> THEN << >>
  ELSE SideOf(Head(buckets), side) \o ContractsOf(Tail(buckets), side)

ContractNames(list) == { Get(list[i], "contractName") : i \in 1..Len(list) }

\* C9: an options-chain call with expirationDate set, answered with buckets
\* holding N call contracts and M put contracts in total, returns
\* chain.options with N+M entries; the entries coming from a CALL list have
\* type "call" and those from a PUT list type "put", whatever `type` the raw
\* contract carries, and chain.expirationDate is the date asked.
C9_ChainFlattensCallsAndPuts ==
  (/\ pc = "returned"
   /\ name = "finnhub.options.chain"
   /\ Rules(name, args)
   /\ Given(args, "expirationDate")
   /\ Len(responses) = 1
   /\ AllAnswered
   /\ WellFormedChain(responses[1].json)) =>
     LET calls == ContractsOf(responses[1].json.v.data.v, "CALL")
         puts == ContractsOf(responses[1].json.v.data.v, "PUT")
     IN /\ OneTextEnvelope
        /\ DOMAIN Payload.v = { "chain" }
        /\ Payload.v.chain.v.expirationDate = args.v.expirationDate
        /\ LET options == Payload.v.chain.v.options.v
           IN /\ Len(options) = Len(calls) + Len(puts)
              /\ Cardinality({ i \in 1..Len(options) : options[i].v.type = Lit("call") }) = Len(calls)
              /\ Cardinality({ i \in 1..Len(options) : options[i].v.type = Lit("put") }) = Len(puts)
              /\ \A i \in 1..Len(options) :
                   /\ options[i].v.contractName \in ContractNames(calls) =>
                        options[i].v.type = Lit("call")
                   /\ options[i].v.contractName \in ContractNames(puts) =>
                        options[i].v.type = Lit("put")

\* three calls, one of them marked "put" by the provider, and one put marked
\* "call": four entries
C9_Witness ==
  /\ pc = "returned"
  /\ name = "finnhub.options.chain"
  /\ Given(args, "expirationDate")
  /\ Len(responses) = 1
  /\ responses[1].json = Obj([data |-> Arr(<< BucketCounted, BucketUncounted >>)])
  /\ ~IsErrorPayload
  /\ Len(Payload.v.chain.v.options.v) = 4

\* C10 as claimed: an options-chain call with expirationDate unset returns
\* totalExpirations equal to the number of buckets, and for each bucket
\* optionsCount is the provider's optionsCount whenever the provider gives one
\* (an explicit 0 included) and callCount + putCount only when it is omitted.
C10_ExplicitCountTakesPrecedence ==
  (/\ pc = "returned"
   /\ name = "finnhub.options.chain"
   /\ Rules(name, args)
   /\ ~Given(args, "expirationDate")
   /\ Len(responses) = 1
   /\ AllAnswered
   /\ ~IsErrorPayload
   /\ Given(responses[1].json, "data")
   /\ responses[1].json.v.data.t = "arr") =>
     LET buckets == responses[1].json.v.data.v
         summaries == Payload.v.availableExpirationDates.v
     IN /\ Payload.v.totalExpirations = Num(Len(buckets))
        /\ Len(summaries) = Len(buckets)
        /\ \A i \in 1..Len(buckets) :
             summaries[i].v.optionsCount =
               IF Given(buckets[i], "optionsCount") THEN buckets[i].v.optionsCount
               ELSE Num(Len(SideOf(buckets[i], "CALL")) + Len(SideOf(buckets[i], "PUT")))

(***************************************************************************)
(* Properties of the options-chain and profile tools                       *)
(***************************************************************************)
\* the keys of a request's query, in the order they were appended
QueryKeys(req) == [i \in 1..Len(req.query) |-> req.query[i][1]]

\* C11: the output shape of the options-chain tool is decided by the presence
\* of the validated expirationDate alone.  With it, the one request to
\* /stock/option-chain carries the date filter and a successful result is
\* { chain: { options, expirationDate } }; without it, the one request to the
\* same endpoint carries no date filter and a successful result is
\* { availableExpirationDates, totalExpirations }.  The shapes never mix.
C11_ShapeFollowsExpirationDate ==
  (pc # "idle" /\ name = "finnhub.options.chain" /\ Rules(name, args)) =>
     /\ Len(requests) = 1
     /\ requests[1].endpoint = "/stock/option-chain"
     /\ IF Given(args, "expirationDate")
        THEN /\ QueryKeys(requests[1]) = << "token", "symbol", "expirationDate" >>
             /\ QueryValue(requests[1], "expirationDate") = args.v.expirationDate.v
             /\ (pc = "returned" /\ ~IsErrorPayload) =>
                  /\ DOMAIN Payload.v = { "chain" }
                  /\ Payload.v.chain.t = "obj"
                  /\ DOMAIN Payload.v.chain.v = { "options", "expirationDate" }
                  /\ Payload.v.chain.v.options.t = "arr"
        ELSE /\ QueryKeys(requests[1]) = << "token", "symbol" >>
             /\ (pc = "returned" /\ ~IsErrorPayload) =>
                  /\ DOMAIN Payload.v = { "availableExpirationDates", "totalExpirations" }
                  /\ Payload.v.availableExpirationDates.t = "arr"

\* the same upstream body answered to a call with a date: the chain shape
C11_Witness ==
  /\ pc = "returned"
  /\ name = "finnhub.options.chain"
  /\ args = Obj([symbol |-> SymLower, expirationDate |-> DateJan28])
  /\ Len(responses) = 1
  /\ responses[1].json = Obj([data |-> Arr(<< BucketUncounted, BucketEmpty, BucketCounted >>)])
  /\ DOMAIN Payload.v = { "chain" }
  /\ Len(Payload.v.chain.v.options.v) = 4

\* and to a call without a date: the summary shape
C11_WitnessWithoutDate ==
  /\ pc = "returned"
  /\ name = "finnhub.options.chain"
  /\ args = Obj([symbol |-> SymLower])
  /\ Len(responses) = 1
  /\ responses[1].json = Obj([data |-> Arr(<< BucketUncounted, BucketEmpty, BucketCounted >>)])
  /\ DOMAIN Payload.v = { "availableExpirationDates", "totalExpirations" }
  /\ Payload.v.totalExpirations = Num(3)

\* the ticker of the raw profile, and what counts as empty or missing
TickerOf(body) == Get(body, "ticker")
NoTicker(body) == TickerOf(body) \in { Undefined, Null, EmptyString }

\* C12: a profile call whose upstream response succeeds with an empty or
\* missing ticker returns the success payload { profile: null } and no error
\* envelope; with a non-empty ticker it returns a normalized profile that is
\* not null and carries that ticker.
C12_EmptyTickerIsNullProfile ==
  (/\ pc = "returned"
   /\ name = "finnhub.stock.profile"
   /\ Rules(name, args)
   /\ Len(responses) = 1
   /\ AllAnswered) =>
     /\ OneTextEnvelope
     /\ ~IsErrorPayload
     /\ DOMAIN Payload.v = { "profile" }
     /\ NoTicker(responses[1].json) => Payload.v.profile = Null
     /\ ~NoTicker(responses[1].json) =>
          /\ Payload.v.profile.t = "obj"
          /\ Payload.v.profile.v.ticker = TickerOf(responses[1].json)

\* the provider answers 200 with an empty ticker
C12_Witness ==
  /\ pc = "returned"
  /\ name = "finnhub.stock.profile"
  /\ Len(responses) = 1
  /\ responses[1].json = ProfileNoTicker
  /\ Payload = Obj([profile |-> Null])

\* the provider answers 200 with a ticker
C12_WitnessFound ==
  /\ pc = "returned"
  /\ name = "finnhub.stock.profile"
  /\ Len(responses) = 1
  /\ responses[1].json = ProfileFull
  /\ Payload.v.profile.v.industry = Lit("Technology")

(***************************************************************************)
(* The normalizers alone: every normalizer applied to a pair of raw        *)
(* records of its kind                                                     *)
(***************************************************************************)
Normalizers == { "earnings", "quote", "news", "profile", "call", "put", "summary" }

\* a raw record with one more field, or with another value in a field
WithField(raw, f, x) == Obj((f :> x) @@ raw.v)

EarningsBase == [date |-> Lit("2024-01-30"), symbol |-> Lit("AAPL"), hour |-> Lit("bmo"),
                 quarter |-> Num(1), year |-> Num(2024)]

\* earnings records with every combination of a present, null and omitted
\* actual and of a non-zero, zero, null and omitted estimate
EarningsRaws ==
  { Obj(Put(Put(Put(Put(Put(EarningsBase, "epsActual", a), "epsEstimate", e),
                    "revenueActual", r[1]), "revenueEstimate", r[2]), "currency", x)) :
      a \in { Undefined, Null, Num(3) },
      e \in { Undefined, Null, Num(0), Num(2) },
      r \in { << Num(120), Num(100) >>, << Num(5), Num(0) >>, << Null, Num(7) >>,
              << Num(9), Undefined >> },
      x \in { Undefined, Lit("USD") } }

QuoteRaws ==
  { QuoteLive, QuoteZero, QuoteNoPrice, QuoteNoClose, EmptyObj,
    WithField(QuoteLive, "v", Num(900)), WithField(QuoteLive, "symbol", Lit("zz")),
    WithField(QuoteNoClose, "d", Num(2)) }

NewsRaws ==
  { NewsOne, NewsTwo, EmptyObj,
    WithField(NewsOne, "headline", Lit("Apple up")), WithField(NewsOne, "id", Num(7)),
    WithField(NewsTwo, "summary", Null), WithField(NewsTwo, "sentiment", Num(1)) }

ProfileRaws ==
  { ProfileFull, ProfileNoTicker,
    WithField(ProfileFull, "employeeTotal", Num(100)),
    WithField(ProfileFull, "industry", Lit("Other")),
    WithField(ProfileFull, "phoneNumber", Lit("555")),
    WithField(ProfileNoTicker, "isin", Null),
    WithField(ProfileNoTicker, "ipoDate", Lit("1999-01-01")),
    WithField(WithField(ProfileFull, "phone", Lit("111")), "phoneNumber", Lit("555")),
    WithField(WithField(ProfileFull, "logo", Lit("m.png")), "shareOutstanding", Num(15)) }

OptionRaws ==
  { CallOne, CallTwo, CallThree, PutOne, PutTwo,
    WithField(CallOne, "type", Lit("Put")), WithField(CallThree, "inTheMoney", Lit("TRUE")),
    WithField(PutTwo, "vega", Null), WithField(CallOne, "ask", Null),
    WithField(CallTwo, "theta", Num(0)) }

SummaryRaws ==
  { BucketCounted, BucketUncounted, BucketCountZero, BucketCountOnly, BucketOverride,
    BucketEmpty, BucketBare,
    WithField(BucketCounted, "symbol", Lit("AAPL")),
    WithField(BucketUncounted, "putVolume", Null),
    WithField(BucketBare, "lastTradeDate", Lit("2024-12-19")) }

RawsOf(kind) ==
  CASE kind = "earnings" -> EarningsRaws
    [] kind = "quote" -> QuoteRaws
    [] kind = "news" -> NewsRaws
    [] kind = "profile" -> ProfileRaws
    [] kind \in { "call", "put" } -> OptionRaws
    [] kind = "summary" -> SummaryRaws

\* the symbol getQuotes hands to normalizeQuote
QuoteSymbol == << "A", "A", "P", "L" >>

\* one call of a normalizer on a raw record
Apply(kind, raw) ==
  CASE kind = "earnings" -> Return(normalizeEarnings(raw))
    [] kind = "quote" -> Return(normalizeQuote(QuoteSymbol, raw))
    [] kind = "news" -> Return(normalizeNews(raw))
    [] kind = "profile" -> Return(normalizeProfile(raw))
    [] kind \in { "call", "put" } -> Return(normalizeOptionContract(raw, kind))
    [] kind = "summary" ->
         IF SummaryThrows(raw) THEN Throw(TypeError) ELSE Return(ExpirationSummary(raw))

NormalizeInit ==
  /\ pc = "raw"
  /\ name \in Normalizers
  /\ args \in RawsOf(name)
  /\ local \in RawsOf(name)
  /\ env = NoEnv
  /\ requests = << >>
  /\ responses = << >>
  /\ result = << >>
  /\ thrown = FALSE

\* the normalizer of the kind runs on both records
Normalize ==
  /\ pc = "raw"
  /\ pc' = "normalized"
  /\ result' = << Apply(name, args), Apply(name, local) >>
  /\ UNCHANGED << name, args, env, local, requests, responses, thrown >>

NormalizeNext == Normalize

SpecNormalize == NormalizeInit /\ [][NormalizeNext]_vars

(***************************************************************************)
(* Properties of the normalizers                                           *)
(***************************************************************************)
Blocks == { "eps", "revenue" }
EstimateOf(raw, block) == Get(raw, block \o "Estimate")
ActualOf(raw, block) == Get(raw, block \o "Actual")

\* the block of the normalized record of the first raw record
BlockOut(block) == result[1].value.v[block].v

\* C13 as claimed: surprisePercent is null whenever the estimate is 0 or absent
\* (null or omitted), even if the actual is present, and otherwise is
\* surprise / estimate * 100 of the record's surprise; the same for the EPS
\* and the revenue block.
C13_PercentIsNullWithoutEstimate ==
  (pc = "normalized" /\ name = "earnings") =>
     \A block \in Blocks :
       IF EstimateOf(args, block) \in { Undefined, Null, Num(0) }
       THEN BlockOut(block).surprisePercent = Null
       ELSE BlockOut(block).surprise.t = "num" =>
              BlockOut(block).surprisePercent =
                Percent(BlockOut(block).surprise, EstimateOf(args, block))

\* a field of the provider's record is present when it is neither null nor
\* omitted
Present(x) == x.t \notin { "undefined", "null" }

\* C14 as claimed: surprise is actual - estimate when actual and estimate are
\* both present and null otherwise, a field being not present when the
\* provider sends null and when the provider omits it; the same for the EPS
\* and the revenue block.
C14_SurpriseIsNullUnlessBothPresent ==
  (pc = "normalized" /\ name = "earnings") =>
     \A block \in Blocks :
       BlockOut(block).surprise =
         IF Present(ActualOf(args, block)) /\ Present(EstimateOf(args, block))
         THEN Num(ActualOf(args, block).v - EstimateOf(args, block).v)
         ELSE Null

\* the fields of the raw record each normalizer reads
ReadFields(kind) ==
  CASE kind = "earnings" ->
         { "date", "symbol", "quarter", "year", "hour", "epsEstimate", "epsActual",
           "revenueEstimate", "revenueActual" }
    [] kind = "quote" -> { "c", "d", "dp", "h", "l", "o", "pc", "t" }
    [] kind = "news" ->
         { "headine", "summary", "source", "url", "datetime", "image", "related", "category" }
    [] kind = "profile" ->
         { "name", "ticker", "exchange", "finnhubIndustry", "industry", "weburl", "logo",
           "logo_url", "description", "marketCapitalization", "shareOutstanding", "ipo",
           "ipoDate", "currency", "country", "phone", "phoneNumber" }
    [] kind \in { "call", "put" } ->
         { "contractName", "strike", "expirationDate", "bid", "ask", "lastPrice",
           "openInterest", "volume", "impliedVolatility", "delta", "gamma", "theta", "rho",
           "vega" }
    [] kind = "summary" ->
         { "expirationDate", "optionsCount", "putVolume", "callVolume", "putOpenInterest",
           "callOpenInterest", "impliedVolatility", "options" }

\* what a normalizer sees of a field: its value, and of a bucket's options
\* only whether they can be read and how long the two lists are
Seen(kind, raw, f) ==
  IF kind = "summary" /\ f = "options"
  THEN IF CanRead(Get(raw, f))
       THEN << LengthOf(Get(Get(raw, f), "CALL")), LengthOf(Get(Get(raw, f), "PUT")) >>
       ELSE << >>
  ELSE Get(raw, f)

AgreeOnRead(kind, a, b) == \A f \in ReadFields(kind) : Seen(kind, a, f) = Seen(kind, b, f)

\* C19: two raw records that agree on every field a normalizer reads, and
\* differ only in fields it does not know or use, are normalized to the same
\* output, with the same field names and the same choices of null or value;
\* this holds for the earnings, quote, news, profile, option-contract and
\* expiration-summary normalizers.
C19_ExtraFieldsDoNotChangeOutput ==
  (pc = "normalized" /\ AgreeOnRead(name, args, local)) => result[1] = result[2]

\* a news record and the same record with another `id` give the same
\* normalized article
C19_Witness ==
  /\ pc = "normalized"
  /\ name = "news"
  /\ args = NewsOne
  /\ local = WithField(NewsOne, "id", Num(7))
  /\ AgreeOnRead(name, args, local)
  /\ result[1].kind = "return"
  /\ result[1] = result[2]
  /\ DOMAIN result[2].value.v =
       { "headline", "summary", "source", "url", "datetime", "image", "related", "category" }

(***************************************************************************)
(* Properties of the upstream client                                       *)
(***************************************************************************)
\* the fetch did not deliver a response of the success range
Failed(outcome) == outcome.kind = "reject" \/ ~Ok(outcome)

\* C15: an upstream failure (a status outside the success range, or a
\* transport failure of the fetch) ends the tool call in an error envelope
\* and is never retried: the failed request is the last of its call.  For a
\* non-success status the message holds the status code, the status text and
\* the response body when it is not empty; for a transport failure the
\* message is the one of the rejection and holds no status code.
C15_UpstreamFailureIsReportedOnce ==
  (name \in ToolNames /\ responses # << >>) =>
     /\ \A i \in 1..(Len(responses) - 1) : ~Failed(responses[i])
     /\ Failed(LastResponse) =>
          /\ pc = "returned"
          /\ Len(requests) = Len(responses)
          /\ OneTextEnvelope
          /\ DOMAIN Payload.v = { "error", "message" }
          /\ Payload.v.error = Lit("FINNHUB_API_ERROR")
          /\ Payload.v.message =
               IF LastResponse.kind = "reject" THEN Lit("fetch failed")
               ELSE Text(<< "Finnhub API error: ", LastResponse.status, " ",
                            LastResponse.statusText >>
                         \o (IF LastResponse.text = "" THEN << >>
                             ELSE << " - ", LastResponse.text >>))

\* the second request of a quote call is answered 429 with a body
C15_Witness ==
  /\ pc = "returned"
  /\ name = "finnhub.quote"
  /\ Len(requests) = 2
  /\ Len(responses) = 2
  /\ LastResponse.status = 429
  /\ Payload.v.message =
       Text(<< "Finnhub API error: ", 429, " ", "Too Many Requests", " - ", "API limit reached" >>)

\* the fetch of a news call is rejected by the transport
C15_WitnessTransport ==
  /\ pc = "returned"
  /\ name = "finnhub.news"
  /\ Len(requests) = 1
  /\ LastResponse.kind = "reject"
  /\ Payload = Obj([error |-> Lit("FINNHUB_API_ERROR"), message |-> Lit("fetch failed")])

Endpoints ==
  { "/calendar/earnings", "/quote", "/company-news", "/stock/profile2", "/stock/option-chain" }

\* the first position of a character in a string, 0 when it is not there
FirstIndex(chars, c) ==
  IF \E i \in 1..Len(chars) : chars[i] = c
  THEN CHOOSE i \in 1..Len(chars) : chars[i] = c /\ \A j \in 1..(i - 1) : chars[j] # c
  ELSE 0

RECURSIVE SplitOn(_, _)
SplitOn(chars, c) ==
  IF FirstIndex(chars, c) = 0 THEN << chars >>
  ELSE << SubSeq(chars, 1, FirstIndex(chars, c) - 1) >>
       \o SplitOn(SubSeq(chars, FirstIndex(chars, c) + 1, Len(chars)), c)

\* the parameters the provider reads from a query string: the pieces between
\* the & signs, each cut at its first = sign
ParseQuery(chars) ==
  LET pieces == SplitOn(chars, "&")
  IN [i \in 1..Len(pieces) |->
        IF FirstIndex(pieces[i], "=") = 0 THEN << pieces[i], << >> >>
        ELSE << SubSeq(pieces[i], 1, FirstIndex(pieces[i], "=") - 1),
                SubSeq(pieces[i], FirstIndex(pieces[i], "=") + 1, Len(pieces[i])) >>]

\* C16: every upstream request of every tool goes to the base path /api/v1
\* plus one of the five endpoints and carries exactly one query parameter
\* token, equal to the configured key; the token is never sent as a header,
\* and no argument of the caller replaces it or adds a second one.
C16_OneTokenQueryParameter ==
  \A i \in 1..Len(requests) :
    LET sent == ParseQuery(searchParamsToString(requests[i].query))
        tokens == { j \in 1..Len(sent) : sent[j][1] = << "t", "o", "k", "e", "n" >> }
    IN /\ requests[i].base = "https://finnhub.io/api/v1"
       /\ requests[i].endpoint \in Endpoints
       /\ requests[i].headers = << >>
       /\ Len(sent) = Len(requests[i].query)
       /\ Cardinality(tokens) = 1
       /\ \A j \in tokens : sent[j][2] = ApiKey

\* a caller sends a token of its own next to a symbol that spells a second
\* token parameter
C16_Witness ==
  /\ pc = "fetching"
  /\ name = "finnhub.stock.profile"
  /\ args = Obj([symbol |-> SymInject, token |-> Lit("mine")])
  /\ Len(requests) = 1
  /\ searchParamsToString(requests[1].query) =
       << "t", "o", "k", "e", "n", "=", "k", "e", "y", "&", "s", "y", "m", "b", "o", "l", "=",
          "A", "%", "2", "6", "T", "O", "K", "E", "N", "%", "3", "D", "X" >>

\* u is s with every lower-case letter replaced by its capital
IsUppercaseOf(u, s) ==
  /\ Len(u) = Len(s)
  /\ \A i \in 1..Len(s) :
       IF \E k \in 1..26 : LowerChars[k] = s[i]
       THEN \E k \in 1..26 : LowerChars[k] = s[i] /\ UpperChars[k] = u[i]
       ELSE u[i] = s[i]

\* C17: in every upstream request of every tool the query parameter symbol
\* is the caller's symbol in upper case (earnings when a symbol is given, and
\* then only; each symbol of a quote call; news; profile; both modes of the
\* options chain), and the symbol of each returned quote is the upper-case
\* symbol that was requested for it.
C17_SymbolsAreUppercased ==
  (pc # "idle" /\ name \in ToolNames /\ Rules(name, args)) =>
     /\ \A i \in 1..Len(requests) :
          IF name = "finnhub.quote"
          THEN /\ QueryKeys(requests[i]) = << "token", "symbol" >>
               /\ IsUppercaseOf(QueryValue(requests[i], "symbol"), RequestedSymbols[i].v)
          ELSE IF Given(args, "symbol")
          THEN /\ Cardinality({ j \in 1..Len(requests[i].query) :
                                  requests[i].query[j][1] = "symbol" }) = 1
               /\ IsUppercaseOf(QueryValue(requests[i], "symbol"), args.v.symbol.v)
          ELSE \A j \in 1..Len(requests[i].query) : requests[i].query[j][1] # "symbol"
     /\ (pc = "returned" /\ name = "finnhub.quote" /\ ~IsErrorPayload) =>
          \A j \in 1..Len(Payload.v.quotes.v) :
            /\ Payload.v.quotes.v[j].v.symbol.t = "str"
            /\ \E i \in 1..Len(requests) :
                 /\ Payload.v.quotes.v[j].v.symbol.v = QueryValue(requests[i], "symbol")
                 /\ IsUppercaseOf(Payload.v.quotes.v[j].v.symbol.v, RequestedSymbols[i].v)

\* an earnings call for aapl asks the provider for AAPL
C17_Witness ==
  /\ pc = "fetching"
  /\ name = "finnhub.calendar.earnings"
  /\ Given(args, "symbol")
  /\ args.v.symbol = SymLower
  /\ QueryValue(requests[1], "symbol") = << "A", "A", "P", "L" >>

\* a quote call for Zz returns the quote of ZZ
C17_WitnessQuote ==
  /\ pc = "returned"
  /\ name = "finnhub.quote"
  /\ args = Obj([symbols |-> Arr(<< SymMixed >>)])
  /\ ~IsErrorPayload
  /\ Len(Payload.v.quotes.v) = 1
  /\ Payload.v.quotes.v[1].v.symbol = Str(<< "Z", "Z" >>)

\* the request did not give the caller a parsed body
RequestFails(outcome) == Failed(outcome) \/ ~outcome.parses

\* C20: a quote call over s1..sn issues its requests one at a time, in the
\* order of the symbols, each after the answer to the one before; when the
\* request for the k-th symbol fails, no request is issued for s(k+1)..sn and
\* the call returns an error envelope that holds none of the quotes fetched
\* for s1..s(k-1).
C20_QuoteFailureStopsTheCall ==
  (pc # "idle" /\ name = "finnhub.quote" /\ Rules(name, args)) =>
     /\ Len(requests) = Len(responses) + (IF pc = "fetching" THEN 1 ELSE 0)
     /\ Len(requests) <= Len(RequestedSymbols)
     /\ \A i \in 1..Len(requests) :
          /\ requests[i].endpoint = "/quote"
          /\ IsUppercaseOf(QueryValue(requests[i], "symbol"), RequestedSymbols[i].v)
     /\ \A k \in 1..Len(responses) :
          RequestFails(responses[k]) =>
            /\ pc = "returned"
            /\ Len(responses) = k
            /\ Len(requests) = k
            /\ OneTextEnvelope
            /\ DOMAIN Payload.v = { "error", "message" }
            /\ Payload.v.error = Lit("FINNHUB_API_ERROR")
            /\ Payload.v.message.t \in { "lit", "text" }

\* the quote of the first symbol is fetched, the request for the second is
\* rejected: an error envelope without the first quote
C20_Witness ==
  /\ pc = "returned"
  /\ name = "finnhub.quote"
  /\ args = Obj([symbols |-> Arr(<< SymLower, SymMixed >>)])
  /\ Len(responses) = 2
  /\ responses[1].json = QuoteLive
  /\ responses[2].kind = "reject"
  /\ DOMAIN Payload.v = { "error", "message" }

\* the request for the first of two symbols is answered 404: no second request
C20_WitnessFirstFails ==
  /\ pc = "returned"
  /\ name = "finnhub.quote"
  /\ args = Obj([symbols |-> Arr(<< SymLower, SymMixed >>)])
  /\ Len(responses) = 1
  /\ responses[1].status = 404
  /\ Len(requests) = 1
  /\ IsErrorPayload

(***************************************************************************)
(* The server with several tool calls in flight.  Every invocation of the  *)
(* handler has its own name, args, parsed data and client-method locals;   *)
(* the FinnhubClient they share holds the key and the base url, which no   *)
(* method assigns.  The awaited fetches settle in any order.               *)
(***************************************************************************)
Calls == 1..MaxCalls

\* what the callers send and what the provider answers while calls overlap
OverlappingCalls ==
  { << "finnhub.quote", Obj([symbols |-> Arr(<< SymLower, SymMixed >>)]) >>,
    << "finnhub.quote", Obj([symbols |-> Arr(<< SymUpper >>)]) >>,
    << "finnhub.stock.profile", Obj([symbol |-> SymUpper]) >> }

OverlappingOutcomes ==
  { Rejected, Response(200, "OK", "json", TRUE, QuoteLive),
    Response(200, "OK", "json", TRUE, QuoteZero) }

ConcurrentInit ==
  /\ pc = [c \in Calls |-> "idle"]
  /\ name = [c \in Calls |-> ""]
  /\ args = [c \in Calls |-> Undefined]
  /\ env = [c \in Calls |-> NoEnv]
  /\ local = [c \in Calls |-> NoLocal]
  /\ requests = [c \in Calls |-> << >>]
  /\ responses = << >>
  /\ result = [c \in Calls |-> NoResult]
  /\ thrown = [c \in Calls |-> FALSE]

FrameSharedQuotes(c) ==
  [local[c] EXCEPT !.quotes =
     IF local[c].op = "quotes"
     THEN LET others == { d \in Calls : d # c /\ local[d].op = "quotes" }
          IN IF others = { } THEN local[c].quotes
             ELSE local[CHOOSE d \in others : TRUE].quotes \o local[c].quotes
     ELSE local[c].quotes]

\* the live variables a suspended invocation resumes with: its own (`quotes`
\* is a const of the getQuotes invocation, `symbol` the loop's own variable)
FrameOf(c) == local[c]

\* where a step leaves the invocation c
SettleIn(c, step) ==
  /\ pc' = [pc EXCEPT ![c] = IF step.kind = "fetch" THEN "fetching" ELSE "returned"]
  /\ local' = [local EXCEPT ![c] = IF step.kind = "fetch" THEN step.local ELSE NoLocal]
  /\ requests' = [requests EXCEPT ![c] =
                    IF step.kind = "fetch"
                    THEN Append(requests[c], RequestUrl(step.endpoint, step.params))
                    ELSE requests[c]]
  /\ result' = [result EXCEPT ![c] =
                  IF step.kind = "return" THEN Envelope(step.value) ELSE NoResult]
  /\ thrown' = [thrown EXCEPT ![c] = (step.kind = "throw")]

\* the transport hands a tools/call request to a new invocation of the handler
CallToolIn(c, n, a) ==
  /\ pc[c] = "idle"
  /\ name' = [name EXCEPT ![c] = n]
  /\ args' = [args EXCEPT ![c] = a]
  /\ SettleIn(c, Catch(CallToolBody(n, a, NoEnv)))
  /\ UNCHANGED << env, responses >>

\* the fetch awaited by invocation c settles; responses is the order in which
\* the fetches of all invocations settled
RespondTo(c, outcome) ==
  /\ pc[c] = "fetching"
  /\ responses' = Append(responses, [call |-> c, outcome |-> outcome])
  /\ SettleIn(c, Catch(CallToolResume(FrameOf(c), outcome)))
  /\ UNCHANGED << name, args, env >>

\* the transport sends the envelope of invocation c
DeliverOf(c) ==
  /\ pc[c] = "returned"
  /\ pc' = [pc EXCEPT ![c] = "idle"]
  /\ name' = [name EXCEPT ![c] = ""]
  /\ args' = [args EXCEPT ![c] = Undefined]
  /\ local' = [local EXCEPT ![c] = NoLocal]
  /\ requests' = [requests EXCEPT ![c] = << >>]
  /\ responses' = SelectSeq(responses, LAMBDA r : r.call # c)
  /\ result' = [result EXCEPT ![c] = NoResult]
  /\ thrown' = [thrown EXCEPT ![c] = FALSE]
  /\ UNCHANGED env

ConcurrentNext ==
  \/ \E c \in Calls : \E call \in OverlappingCalls : CallToolIn(c, call[1], call[2])
  \/ \E c \in Calls : \E outcome \in OverlappingOutcomes : RespondTo(c, outcome)
  \/ \E c \in Calls : DeliverOf(c)

SpecConcurrent == ConcurrentInit /\ [][ConcurrentNext]_vars

(***************************************************************************)
(* Properties of overlapping calls                                         *)
(***************************************************************************)
\* the outcomes delivered to invocation c, in their order
ResponsesTo(c) ==
  LET mine == SelectSeq(responses, LAMBDA r : r.call = c)
  IN [i \in 1..Len(mine) |-> mine[i].outcome]

\* the calls the fetches settled for, in the order they settled
SettledFor == [i \in 1..Len(responses) |-> responses[i].call]

\* a call run alone against a list of upstream outcomes
RECURSIVE ResumeAlone(_, _)
ResumeAlone(step, outcomes) ==
  IF step.kind # "fetch" \/ outcomes = << >> THEN step
  ELSE ResumeAlone(Catch(CallToolResume(step.local, Head(outcomes))), Tail(outcomes))

RunAlone(n, a, outcomes) == ResumeAlone(Catch(CallToolBody(n, a, NoEnv)), outcomes)

PayloadOf(c) == result[c].content[1].text

\* C18: tool calls share no mutable state.  With two or more calls in flight
\* and their upstream requests and responses interleaved in any order, each
\* call issues the requests and returns the envelope it would issue and
\* return if it ran alone against the same upstream responses; the quotes of
\* a quote call are quotes of its own symbols only.
C18_CallsDoNotInterfere ==
  \A c \in Calls :
    pc[c] # "idle" =>
      LET alone == RunAlone(name[c], args[c], ResponsesTo(c))
      IN /\ ~thrown[c]
         /\ pc[c] = "fetching" =>
              /\ alone.kind = "fetch"
              /\ requests[c][Len(requests[c])] = RequestUrl(alone.endpoint, alone.params)
         /\ pc[c] = "returned" =>
              /\ alone.kind = "return"
              /\ result[c] = Envelope(alone.value)
              /\ (name[c] = "finnhub.quote" /\ "quotes" \in DOMAIN PayloadOf(c).v) =>
                   \A j \in 1..Len(PayloadOf(c).v.quotes.v) :
                     \E i \in 1..Len(args[c].v.symbols.v) :
                       IsUppercaseOf(PayloadOf(c).v.quotes.v[j].v.symbol.v,
                                     args[c].v.symbols.v[i].v)

\* the quote call for aapl and Zz got its first answer, then the quote call
\* for MSFT got its answer, then the first call got its second answer and
\* returned its two quotes while the second call still holds its result
C18_Witness ==
  /\ pc[1] = "returned"
  /\ pc[2] = "returned"
  /\ name[1] = "finnhub.quote"
  /\ name[2] = "finnhub.quote"
  /\ args[1] = Obj([symbols |-> Arr(<< SymLower, SymMixed >>)])
  /\ args[2] = Obj([symbols |-> Arr(<< SymUpper >>)])
  /\ SettledFor = << 1, 2, 1 >>
  /\ "quotes" \in DOMAIN PayloadOf(1).v
  /\ "quotes" \in DOMAIN PayloadOf(2).v
  /\ Len(PayloadOf(1).v.quotes.v) = 2
  /\ Len(PayloadOf(2).v.quotes.v) = 1
  /\ PayloadOf(2).v.quotes.v[1].v.symbol = Str(<< "M", "S", "F", "T" >>)

\* a raw value that is zero or absent (omitted, null, or the empty string)
ZeroOrAbsent(x) == x \in { Undefined, Null, Num(0), EmptyString }

\* a raw value that is absent: omitted or null
Absent(x) == x \in { Undefined, Null }

Greeks == { "delta", "gamma", "theta", "rho", "vega" }

\* the normalized record of the first raw record
Normalized == result[1].value.v

\* C21: in a normalized option contract bid and ask are null exactly when the
\* raw value is zero or absent and are the raw value otherwise; each of
\* delta, gamma, theta, rho and vega is null exactly when that Greek is
\* absent in the raw record and is the raw value otherwise, so that a missing
\* Greek changes no other Greek and a Greek of 0 stays 0.
C21_QuotesAndGreeksDefaultToNull ==
  (pc = "normalized" /\ name \in { "call", "put" }) =>
     /\ \A f \in { "bid", "ask" } :
          Normalized[f] = IF ZeroOrAbsent(Get(args, f)) THEN Null ELSE Get(args, f)
     /\ DOMAIN Normalized.greeks.v = Greeks
     /\ \A g \in Greeks :
          Normalized.greeks.v[g] = IF Absent(Get(args, g)) THEN Null ELSE Get(args, g)

\* a contract with delta 1 and gamma 0 and no other Greek, bid 1 and ask 2
C21_Witness ==
  /\ pc = "normalized"
  /\ name = "call"
  /\ args = CallOne
  /\ Normalized.bid = Num(1)
  /\ Normalized.greeks = Obj([delta |-> Num(1), gamma |-> Num(0), theta |-> Null,
                              rho |-> Null, vega |-> Null])

\* a contract with bid 0 and no ask
C21_WitnessNoQuote ==
  /\ pc = "normalized"
  /\ name = "put"
  /\ args = CallTwo
  /\ Normalized.bid = Null
  /\ Normalized.ask = Null

\* a provider field that is present and is not the empty string
NonEmpty(x) == x \notin { Undefined, Null, EmptyString }

\* the output fields of a profile that have a second provider field to fall
\* back on, as << output field, primary field, secondary field >>
Fallbacks ==
  { << "industry", "finnhubIndustry", "industry" >>,
    << "logo", "logo", "logo_url" >>,
    << "ipoDate", "ipo", "ipoDate" >>,
    << "phone", "phone", "phoneNumber" >> }

\* the output fields of a profile that are numbers, as << output field,
\* provider field >>
Amounts ==
  { << "marketCap", "marketCapitalization" >>,
    << "sharesOutstanding", "shareOutstanding" >> }

\* C22: in a normalized profile industry, logo, ipoDate and phone are the
\* primary provider field when it is non-empty, the secondary provider field
\* when only that one is non-empty, and the empty string when neither is;
\* market cap and shares outstanding are 0 when the provider field is absent
\* and the provider's number otherwise.
C22_ProfileFallbacks ==
  (pc = "normalized" /\ name = "profile") =>
     /\ \A fb \in Fallbacks :
          Normalized[fb[1]] =
             IF NonEmpty(Get(args, fb[2])) THEN Get(args, fb[2])
             ELSE IF NonEmpty(Get(args, fb[3])) THEN Get(args, fb[3])
             ELSE EmptyString
     /\ \A am \in Amounts :
          Normalized[am[1]] =
             IF Absent(Get(args, am[2])) THEN Num(0) ELSE Get(args, am[2])

\* both industries given, an empty logo with a logo_url, no phone at all and
\* no shares outstanding
C22_Witness ==
  /\ pc = "normalized"
  /\ name = "profile"
  /\ args = ProfileFull
  /\ Normalized.industry = Lit("Technology")
  /\ Normalized.logo = Lit("l.png")
  /\ Normalized.phone = EmptyString
  /\ Normalized.marketCap = Num(3000)
  /\ Normalized.sharesOutstanding = Num(0)

\* only the secondary ipoDate given
C22_WitnessSecondary ==
  /\ pc = "normalized"
  /\ name = "profile"
  /\ Get(args, "ipo") = Undefined
  /\ Normalized.ipoDate = Lit("1999-01-01")

\* the records of the upstream response: the array under `field` of the
\* body, no records when the body has no such field, or the body itself
\* when the endpoint answers with a bare array (field "")
UpstreamRecords(body, field) ==
  IF field = "" THEN body.v
  ELSE IF Get(body, field).t = "arr" THEN Get(body, field).v
  ELSE << >>

\* the list of a success payload has one entry per upstream record, in
\* upstream order, and the count next to it is the length of the list
ListsEveryRecord(list, count, records, entries) ==
  /\ list.t = "arr"
  /\ count = Num(Len(list.v))
  /\ Len(list.v) = Len(records)
  /\ \A i \in 1..Len(records) : list.v[i] = JSONstringify(entries[i])

\* C23: in every success payload the count equals the length of the list it
\* accompanies (earnings count and data, news count and news, options
\* totalExpirations and availableExpirationDates); the list has exactly one
\* entry per record of the upstream response, in upstream order; a response
\* without the list field (earningsCalendar, data) gives an empty list and
\* the count 0.
C23_CountIsLengthOfList ==
  (pc = "returned" /\ Rules(name, args) /\ ~IsErrorPayload /\ Len(responses) = 1) =>
     LET body == responses[1].json
     IN CASE name = "finnhub.calendar.earnings" ->
               LET records == UpstreamRecords(body, "earningsCalendar")
               IN ListsEveryRecord(Payload.v.data, Payload.v.count, records,
                                   [i \in 1..Len(records) |-> normalizeEarnings(records[i])])
          [] name = "finnhub.news" ->
               LET records == UpstreamRecords(body, "")
               IN ListsEveryRecord(Payload.v.news, Payload.v.count, records,
                                   [i \in 1..Len(records) |-> normalizeNews(records[i])])
          [] name = "finnhub.options.chain" /\ ~Given(args, "expirationDate") ->
               LET records == UpstreamRecords(body, "data")
               IN ListsEveryRecord(Payload.v.availableExpirationDates,
                                   Payload.v.totalExpirations, records,
                                   [i \in 1..Len(records) |-> ExpirationSummary(records[i])])
          [] OTHER -> TRUE

\* an earnings calendar of two records: two entries in the same order
C23_Witness ==
  /\ pc = "returned"
  /\ name = "finnhub.calendar.earnings"
  /\ Len(responses) = 1
  /\ responses[1].json = Obj([earningsCalendar |-> Arr(<< EarningsFull, EarningsZeroEstimate >>)])
  /\ ~IsErrorPayload
  /\ Payload.v.count = Num(2)
  /\ Payload.v.data.v[1].v.symbol = Lit("AAPL")
  /\ Payload.v.data.v[2].v.symbol = Lit("MSFT")

\* a body without the list field: an empty list and the count 0
C23_WitnessMissingList ==
  /\ pc = "returned"
  /\ Len(responses) = 1
  /\ responses[1].json = EmptyObj
  /\ ~IsErrorPayload
  /\ \/ /\ name = "finnhub.calendar.earnings"
        /\ Payload.v.data = Arr(<< >>)
        /\ Payload.v.count = Num(0)
     \/ /\ name = "finnhub.options.chain"
        /\ Payload.v.availableExpirationDates = Arr(<< >>)
        /\ Payload.v.totalExpirations = Num(0)

\* two news items and three expiration buckets, one of them without options
C23_WitnessNews ==
  /\ pc = "returned"
  /\ name = "finnhub.news"
  /\ ~IsErrorPayload
  /\ Payload.v.count = Num(2)
  /\ Payload.v.news.v[2].v.headline = Lit("Apple down")

C23_WitnessExpirations ==
  /\ pc = "returned"
  /\ name = "finnhub.options.chain"
  /\ ~IsErrorPayload
  /\ "totalExpirations" \in DOMAIN Payload.v
  /\ Payload.v.totalExpirations = Num(3)
  /\ Payload.v.availableExpirationDates.v[2].v.optionsCount = Num(0)

\* the from and to of the requests sent upstream are YYYY-MM-DD strings
SentDatesAreWellFormed ==
  \A i \in 1..Len(requests) :
    /\ IsDateText(Str(QueryValue(requests[i], "from")))
    /\ IsDateText(Str(QueryValue(requests[i], "to")))

\* the dateRange of a success payload is the pair sent upstream
DateRangeIsThePairSent ==
  (pc = "returned" /\ ~IsErrorPayload) =>
     /\ Len(requests) = 1
     /\ Payload.v.dateRange = Obj([from |-> Str(QueryValue(requests[1], "from")),
                                   to |-> Str(QueryValue(requests[1], "to"))])

\* a from that matches the date pattern without being a calendar date, and
\* no to
UnrealFromWithoutTo ==
  /\ Given(args, "from")
  /\ ~IsCalendarDate(args.v.from.v)
  /\ ~Given(args, "to")

\* C24 as claimed: for an earnings call that passes validation the from and
\* to sent upstream are well-formed YYYY-MM-DD strings and the returned
\* dateRange is exactly the pair sent upstream; when from matches the date
\* pattern but is not a real calendar date and to is omitted, the call ends
\* in an error envelope and no request is sent upstream.
C24_EarningsDatesAreWellFormed ==
  (pc # "idle" /\ name = "finnhub.calendar.earnings" /\ Rules(name, args)) =>
     /\ SentDatesAreWellFormed
     /\ DateRangeIsThePairSent
     /\ UnrealFromWithoutTo =>
          /\ Len(requests) = 0
          /\ pc = "returned" => IsErrorPayload

====
